---------------------------- MODULE Spec2Model ----------------------------
(***************************************************************************)
(* Model of the Plinko statistics engine (src/backend/api/game_stats.py).  *)
(*                                                                         *)
(* Numbers.  TLC has 32-bit integers only, so every real of the program is *)
(* a scaled integer and every operation on it is exact rational            *)
(* arithmetic:                                                             *)
(*   multipliers                      tenths            (9.0  -> 90)       *)
(*   probabilities                    ten-thousandths   (0.003 -> 30)      *)
(*   values rounded to 2 decimals     hundredths        (25.0 -> 2500)     *)
(*   values rounded to 4 decimals     ten-thousandths   (6.825 -> 68250)   *)
(* Python's round() is round-half-to-even on the exact value of its        *)
(* argument; RoundHalfEven is that on the exact rational.  The binary      *)
(* representation error of a double (about 1e-15) is modelled where it     *)
(* decides a result within the bounds of the model: in the rounding of     *)
(* deviation and of expected at a decimal tie (RoundDeviation,             *)
(* RoundExpected).                                                         *)
(*                                                                         *)
(* Python values.  A value is Num(x) or None; a drop (one row of the       *)
(* window, a dict) is a function from the keys it has to values.  An       *)
(* operation that raises returns Raise(<exception>) in place of a report.  *)
(***************************************************************************)
EXTENDS Integers, Sequences, FiniteSets, TLC

VARIABLES
    drops,        \* the outcome window handed to the calculator
    risk_level,   \* the risk level handed to the calculator
    result,       \* what the last calculator call returned (or NoResult)
    store,        \* the rows of the outcome store, in insertion order
    now,          \* the clock, in hours
    pc,           \* where get_statistics is: idle, get_drops, fetch, done, raised
    step,         \* which get_drops call is in flight: 1..3 per risk level, 4 combined
    period,       \* the period token of the request
    hours,        \* the lookback get_statistics resolved
    cutoff,       \* the cutoff the get_drops call in flight computed
    all_drops,    \* get_statistics' all_drops: a sequence of <<risk, window>>
    queries,      \* the fetches made for the request: [hours, risk_level, rows]
    report,       \* what get_statistics returned or raised (or NoResult)
    calls,        \* the calculator calls made so far: arguments, output, window after
    max_retries,  \* PlinkoCollector.max_retries
    retry_delay,  \* PlinkoCollector.retry_delay, in seconds
    running,      \* PlinkoCollector.running
    drops_collected, \* PlinkoCollector.drops_collected
    saved,        \* the last save_drop call: arguments and what it returned or raised
    cpc,          \* where run() is: idle, loop, attempt, monitoring, backoff,
                  \* generate, returned, raised
    retry_count,  \* collect_with_playwright's retry_count
    wait_time,    \* the wait of the last backoff, in seconds
    generated,    \* generate_test_data's loop index i
    outcome,      \* the exception run() ended with ("" when none)
    failures,     \* connection attempts that failed since the last page load
    stopped       \* stop() was called during the live collection in progress

calcVars == <<drops, risk_level, result>>
svcVars == <<store, now, pc, step, period, hours, cutoff, all_drops, queries, report>>
colVars == <<max_retries, retry_delay, running, drops_collected, saved, cpc,
             retry_count, wait_time, generated, outcome, failures, stopped>>
vars == <<calcVars, svcVars, calls, colVars>>

---------------------------------------------------------------------------
(* Bounds of the model *)

\* longest window of sample outcomes
MaxLen == 4
\* longest well-formed context around one malformed outcome
MaxCtx == 2
\* most rows the outcome store comes to hold
MaxRows == 2
\* last hour of the clock
MaxTime == 2
\* longest window handed to the jackpot tracker
MaxDrought == 502

\* most outcomes a boundary window puts in its probed slot
MaxHits == 4
\* most calculator calls one calculator object is followed through
MaxCalls == 3
\* most save_drop calls that count one collector is followed through
MaxSaves == 3
\* largest max_retries a collector is built with
MaxRetries == 3
\* the drops generate_test_data is followed through (1000 in run())
MaxTest == 2

---------------------------------------------------------------------------
(* Python values, dicts and exceptions *)

Num(x) == [none |-> FALSE, v |-> x]
None == [none |-> TRUE, v |-> 0]
IsNum(val) == ~val.none

\* dict.get(key, default)
Get(d, key, default) == IF key \in DOMAIN d THEN d[key] ELSE default

Raise(exc) == [raised |-> TRUE, exc |-> exc]

RECURSIVE SumSeq(_)
SumSeq(s) == IF s = <<>> THEN 0 ELSE Head(s) + SumSeq(Tail(s))

Abs(x) == IF x < 0 THEN -x ELSE x

\* min(a, b) without the cap b
Uncapped(a, b) == a

Min2(a, b) == IF a <= b THEN a ELSE b

\* round(num / den) to the nearest integer, ties to even (den > 0)
RoundHalfEven(num, den) ==
    LET q == num \div den
        r == num % den
    IN  IF 2 * r < den THEN q
        ELSE IF 2 * r > den THEN q + 1
        ELSE IF q % 2 = 0 THEN q ELSE q + 1

---------------------------------------------------------------------------
(* Binary floating point.  The reals of the program are IEEE doubles.  A   *)
(* double is written here as an exact rational plus its representation     *)
(* error,  num / den + a / (den * 2^k),  with k the number of fraction     *)
(* bits of its binade, so that every step is small-integer arithmetic.     *)
(* The error matters where round() meets a decimal tie: the double is on   *)
(* one side of the tie and round() goes to that side.                      *)

\* floor(log2(num / den)) for num, den > 0
RECURSIVE Log2Floor(_, _)
Log2Floor(num, den) ==
    IF num >= 2 * den THEN Log2Floor(num, 2 * den) + 1
    ELSE IF num < den THEN Log2Floor(2 * num, den) - 1
    ELSE 0

RECURSIVE Pow2(_)
Pow2(k) == IF k = 0 THEN 1 ELSE 2 * Pow2(k - 1)

\* 2^k mod m
RECURSIVE Pow2Mod(_, _)
Pow2Mod(k, m) == IF k = 0 THEN 1 % m ELSE (2 * Pow2Mod(k - 1, m)) % m

\* round-to-nearest, ties-to-even, of I + num / M, less I; par = I mod 2
Nearest(num, M, par) ==
    LET q == num \div M
        rem == num % M
    IN  IF 2 * rem < M THEN q
        ELSE IF 2 * rem > M THEN q + 1
        ELSE IF (par + q) % 2 = 0 THEN q ELSE q + 1

\* the double of the literal or quotient num / den is
\* num / den + a / (den * 2^k)
LiteralError(num, den) ==
    LET k == 52 - Log2Floor(num, den)
        r == (num * Pow2Mod(k, 2 * den)) % (2 * den)
    IN  [a |-> Nearest(r % den, den, r \div den) * den - (r % den), k |-> k]

\* x * m for the double x = num / den + a / (den * 2^k) and the integer m:
\* the double m * num / den + b / (den * 2^k); the result b
TimesError(num, den, a, k, m) ==
    LET k2 == 52 - Log2Floor(num * m, den)
        c == k - k2
        M == den * Pow2(c)
        r == (((num * m) % (2 * den)) * Pow2Mod(k2, 2 * den)) % (2 * den)
        rem == r % den
        z == rem * Pow2(c) + m * a
    IN  Nearest(z, M, r \div den) * M - rem * Pow2(c)

\* theo_pct = THEORETICAL_DISTRIBUTION[slot] * 100 for the probability
\* p / 10000: the double p / 100 + e / (10000 * 2^k)
TheoPctError(p) ==
    LET lit == LiteralError(p, 10000)
    IN  [e |-> TimesError(p, 10000, lit.a, lit.k, 100), k |-> lit.k]

\* the deviation taken from the two rounded percentages of the record
RoundDeviationOfReported(count, n, p) == RoundHalfEven(count * 10000, n) - p

\* round(pct - theo_pct, 2) in hundredths, for pct = count / n * 100 and the
\* probability p / 10000.  Off a tie the double's error (about 1e-15) cannot
\* change the result.  A tie needs n to be a multiple of 32; count / n * 100
\* is taken to be exact, which it is for n a power of two.
RoundDeviation(count, n, p) ==
    LET num == count * 10000 - p * n
        q == num \div n
        r == num % n
    IN  IF 2 * r < n THEN q
        ELSE IF 2 * r > n THEN q + 1
        ELSE
        LET err == TheoPctError(p)
            h == 2 * q + 1                      \* the tie is h / 200
            s == IF h > 0 THEN 1 ELSE -1
            ah == s * h
            k3 == 52 - Log2Floor(ah, 200)
            f == ((ah % 400) * Pow2Mod(k3, 400)) % 400
            rem == f % 200
            c3 == err.k - k3
            L == IF c3 >= 0 THEN 10000 * Pow2(c3) ELSE 10000
            z == IF c3 >= 0 THEN rem * 50 * Pow2(c3) - s * err.e
                 ELSE rem * 50 - s * err.e * Pow2(-c3)
            g == Nearest(z, L, f \div 200)
            \* the double is away from zero of the tie iff g >= 1
            up == IF s > 0 THEN g >= 1 ELSE g < 1
        IN  IF rem = 0 /\ g = 0 THEN (IF q % 2 = 0 THEN q ELSE q + 1)
            ELSE IF up THEN q + 1 ELSE q

\* round(THEORETICAL_DISTRIBUTION[slot] * n, 2) in hundredths, for the
\* probability p / 10000
RoundExpected(p, n) ==
    LET num == p * n
        q == num \div 100
        r == num % 100
    IN  IF r < 50 THEN q
        ELSE IF r > 50 THEN q + 1
        ELSE
        LET lit == LiteralError(p, 10000)
            b == TimesError(p, 10000, lit.a, lit.k, n)
        IN  IF b > 0 THEN q + 1
            ELSE IF b < 0 THEN q
            ELSE IF q % 2 = 0 THEN q ELSE q + 1

---------------------------------------------------------------------------
(* Configuration tables *)

\* multipliers in tenths
PLINKO_SLOTS ==
    [low    |-> [i \in 0..15 |->
                  CASE i \in {0, 1, 2, 13, 14, 15} -> 5
                    [] i \in {3, 4, 11, 12} -> 7
                    [] i \in {5, 6, 9, 10} -> 10
                    [] i \in {7, 8} -> 14],
     medium |-> [i \in 0..15 |->
                  CASE i \in {0, 15} -> 3
                    [] i \in {1, 14} -> 4
                    [] i \in {2, 13} -> 5
                    [] i \in {3, 12} -> 7
                    [] i \in {4, 11} -> 10
                    [] i \in {5, 10} -> 15
                    [] i \in {6, 9} -> 20
                    [] i \in {7, 8} -> 90],
     high   |-> [i \in 0..15 |->
                  CASE i \in {0, 1, 14, 15} -> 2
                    [] i \in {2, 13} -> 3
                    [] i \in {3, 12} -> 5
                    [] i \in {4, 11} -> 10
                    [] i \in {5, 10} -> 20
                    [] i \in {6, 9} -> 70
                    [] i \in {7, 8} -> 1100]]

\* every slot with the probability 1/16
UniformDistribution == [i \in 0..15 |-> 625]

\* probabilities in ten-thousandths
THEORETICAL_DISTRIBUTION ==
    [i \in 0..15 |->
        CASE i \in {0, 15} -> 30
          [] i \in {1, 14} -> 180
          [] i \in {2, 13} -> 540
          [] i \in {3, 12} -> 1080
          [] i \in {4, 7, 8, 11} -> 1620
          [] i \in {5, 6, 9, 10} -> 1940]

\* THEORETICAL_DISTRIBUTION.get(slot_id, 0.0625)
TheoreticalGet(slot_id) ==
    IF slot_id \in DOMAIN THEORETICAL_DISTRIBUTION
    THEN THEORETICAL_DISTRIBUTION[slot_id] ELSE 625

\* PLINKO_SLOTS.get(risk, PLINKO_SLOTS[fallback])
SlotsGet(risk, fallback) ==
    IF risk \in DOMAIN PLINKO_SLOTS THEN PLINKO_SLOTS[risk] ELSE PLINKO_SLOTS[fallback]

\* the multiplier of the edge slot 0
EdgeValue(f) == f[0]

\* max(slot_mults.values())
MaxValue(f) == CHOOSE m \in {f[i] : i \in DOMAIN f} : \A i \in DOMAIN f : f[i] <= m


---------------------------------------------------------------------------
(* PlinkoCalculator.analyze_slot_distribution *)

\* drop.get('slot', drop.get('landing_slot', 7))
LandingSlot(drop) == Get(drop, "slot", Get(drop, "landing_slot", Num(7)))

\* drop.get('multiplier', 1.0)
Multiplier(drop) == Get(drop, "multiplier", Num(10))

\* 0 <= slot < 16
InRange(slot) == 0 <= slot /\ slot < 16

\* slot_counts with the range test replaced by a clamp to the nearest slot
slot_counts_clamped(ds) ==
    LET near(slot) == IF slot < 0 THEN 0 ELSE IF slot > 15 THEN 15 ELSE slot
    IN  [i \in 0..15 |->
            Cardinality({k \in 1..Len(ds) : near(LandingSlot(ds[k]).v) = i})]

\* slot_counts = {i: 0 for i in range(16)}, then one increment per outcome
\* whose slot passes the range test (the loop of analyze_slot_distribution):
\* slot i ends with the number of outcomes in range that landed in it
slot_counts(ds) ==
    [i \in 0..15 |->
        Cardinality({k \in 1..Len(ds) : /\ InRange(LandingSlot(ds[k]).v)
                                        /\ LandingSlot(ds[k]).v = i})]

\* the comparison 0 <= slot raises TypeError on a slot that is no number
SlotTypeError(ds) == \E k \in 1..Len(ds) : ~IsNum(LandingSlot(ds[k]))

\* statistics.mean and the comparisons on a multiplier raise TypeError on a
\* multiplier that is no number
MultiplierTypeError(ds) == \E k \in 1..Len(ds) : ~IsNum(Multiplier(ds[k]))

\* multipliers.append(mult) moved under the range test
RECURSIVE MultipliersInRange(_)
MultipliersInRange(ds) ==
    IF ds = <<>> THEN <<>>
    ELSE (IF InRange(LandingSlot(Head(ds)).v) THEN <<Multiplier(Head(ds)).v>> ELSE <<>>)
         \o MultipliersInRange(Tail(ds))

\* multipliers.append(mult) for every outcome, in tenths
AppendedMultipliers(ds) == [k \in 1..Len(ds) |-> Multiplier(ds[k]).v]

\* [d.get('multiplier', 1.0) for d in drops]
Multipliers(ds) == [k \in 1..Len(ds) |-> Multiplier(ds[k]).v]

\* an ascending sort read backwards: equal counts come in decreasing slot order
RECURSIVE SortedSlotsBackwards(_, _)
SortedSlotsBackwards(counts, todo) ==
    IF todo = {} THEN <<>>
    ELSE LET best == CHOOSE s \in todo :
                        \A t \in todo : counts[t] < counts[s]
                                        \/ (counts[t] = counts[s] /\ t <= s)
         IN  <<best>> \o SortedSlotsBackwards(counts, todo \ {best})

\* sorted(slot_counts.items(), key=lambda x: x[1], reverse=True): a stable
\* sort, so equal counts keep their slot order; the sorted list of slot ids
RECURSIVE SortedSlots(_, _)
SortedSlots(counts, todo) ==
    IF todo = {} THEN <<>>
    ELSE LET best == CHOOSE s \in todo :
                        \A t \in todo : counts[t] < counts[s]
                                        \/ (counts[t] = counts[s] /\ s <= t)
         IN  <<best>> \o SortedSlots(counts, todo \ {best})

\* an empty report with the average multiplier zeroed like the rates
EmptyDistributionZeroAvg(risk) ==
    [raised |-> FALSE, total_drops |-> 0, risk_level |-> risk, slots |-> <<>>,
     most_hit_slot |-> 7, least_hit_slot |-> 0, avg_multiplier |-> 0,
     edge_rate |-> 0, center_rate |-> 0, jackpot_rate |-> 0]

\* the report of an empty window
EmptyDistribution(risk) ==
    [raised |-> FALSE, total_drops |-> 0, risk_level |-> risk, slots |-> <<>>,
     most_hit_slot |-> 7, least_hit_slot |-> 0, avg_multiplier |-> 10000,
     edge_rate |-> 0, center_rate |-> 0, jackpot_rate |-> 0]

\* one SlotStats entry; percentages in hundredths of a percent
SlotStat(slot_id, count, n, slot_mults) ==
    LET theo == TheoreticalGet(slot_id)     \* theo_pct, exact in hundredths
    IN  [slot_id |-> slot_id,
         multiplier |-> Get(slot_mults, slot_id, 10),
         hit_count |-> count,
         percentage |-> RoundHalfEven(count * 10000, n),
         theoretical_percentage |-> theo,
         deviation |-> RoundDeviation(count, n, theo)]

\* the hits of the two outermost slots
OutermostCount(counts) == counts[0] + counts[15]

\* slot_counts[7] + slot_counts[8]
JackpotCount(counts) == counts[7] + counts[8]

analyze_slot_distribution(ds, risk) ==
    IF ds = <<>> THEN EmptyDistribution(risk)
    ELSE IF SlotTypeError(ds) \/ MultiplierTypeError(ds) THEN Raise("TypeError")
    ELSE
    LET counts == slot_counts(ds)
        multipliers == AppendedMultipliers(ds)
        n == Len(ds)
        slot_mults == SlotsGet(risk, "medium")
        sorted_slots == SortedSlots(counts, 0..15)
        edge == counts[0] + counts[1] + counts[2]
                + counts[13] + counts[14] + counts[15]
        center == counts[6] + counts[7] + counts[8] + counts[9]
    IN  [raised |-> FALSE,
         total_drops |-> n,
         risk_level |-> risk,
         slots |-> [i \in 1..16 |-> SlotStat(i - 1, counts[i - 1], n, slot_mults)],
         most_hit_slot |-> sorted_slots[1],
         least_hit_slot |-> sorted_slots[16],
         avg_multiplier |-> IF multipliers # <<>>
                            THEN RoundHalfEven(SumSeq(multipliers) * 1000,
                                               Len(multipliers))
                            ELSE 10000,
         edge_rate |-> RoundHalfEven(edge * 10000, n),
         center_rate |-> RoundHalfEven(center * 10000, n),
         jackpot_rate |-> RoundHalfEven(JackpotCount(counts) * 1000000, n)]

---------------------------------------------------------------------------
(* PlinkoCalculator.analyze_fairness *)

\* slot_counts of analyze_fairness: the same loop, written a second time
fairness_slot_counts(ds) ==
    [i \in 0..15 |->
        Cardinality({k \in 1..Len(ds) : /\ 0 <= LandingSlot(ds[k]).v
                                        /\ LandingSlot(ds[k]).v < 16
                                        /\ LandingSlot(ds[k]).v = i})]

RECURSIVE Gcd(_, _)
Gcd(a, b) == IF b = 0 THEN a ELSE Gcd(b, a % b)

Lcm(a, b) == (a \div Gcd(a, b)) * b

RECURSIVE LcmTo(_)
\* the least common multiple of the probabilities of slots 0..i
LcmTo(i) == IF i = 0 THEN TheoreticalGet(0) ELSE Lcm(LcmTo(i - 1), TheoreticalGet(i))

TheoLcm == LcmTo(15)

RECURSIVE SumTo(_, _)
\* f[0] + ... + f[i]
SumTo(f, i) == IF i < 0 THEN 0 ELSE f[i] + SumTo(f, i - 1)

\* (q + r / d) * m1 * m2 * ..., as a whole part and a remainder over d
RECURSIVE ScaleDiv(_, _, _, _)
ScaleDiv(q, r, d, ms) ==
    IF ms = <<>> THEN [q |-> q, r |-> r]
    ELSE ScaleDiv(q * Head(ms) + (r * Head(ms)) \div d, (r * Head(ms)) % d,
                  d, Tail(ms))

\* The chi-square statistic of the loop of analyze_fairness,
\*     sum over the slots with expected > 0 of (observed - expected)^2 / expected,
\* with expected = p * n / 10000.  Its value is the exact rational
\*     whole / 10000  +  num / (den * 10000)        (0 <= num < den)
\* in ten-thousandths.  (observed - expected)^2 / expected is expanded to
\* observed^2 / expected - 2 * observed + expected, and the quotient is
\* scaled up one factor at a time, so that every intermediate value fits
\* 32 bits (for windows of up to 400 outcomes).
ChiSquare(counts, n) ==
    LET live == {i \in 0..15 : TheoreticalGet(i) * n > 0}
        g == Gcd(10000, TheoLcm)
        \* sum of observed^2 / p, as a multiple of 1 / TheoLcm
        a == SumTo([i \in 0..15 |->
                      IF i \in live
                      THEN counts[i] * counts[i] * (TheoLcm \div TheoreticalGet(i))
                      ELSE 0], 15)
        d == (TheoLcm \div g) * n
        \* sum observed^2 / expected = (10000 / g) * a / d
        first == ScaleDiv(a \div d, a % d, d, <<10000 \div g, 10, 10, 10, 10>>)
        observed == SumTo([i \in 0..15 |-> IF i \in live THEN counts[i] ELSE 0], 15)
        expected == SumTo([i \in 0..15 |-> IF i \in live THEN TheoreticalGet(i) * n ELSE 0], 15)
    IN  [whole |-> first.q - 20000 * observed + expected,
         num |-> first.r,
         den |-> d]

\* round(chi_square, 4), in ten-thousandths
RoundChi(chi) ==
    IF 2 * chi.num < chi.den THEN chi.whole
    ELSE IF 2 * chi.num > chi.den THEN chi.whole + 1
    ELSE IF chi.whole % 2 = 0 THEN chi.whole ELSE chi.whole + 1

\* the fairness test on the reported score
BelowCriticalRounded(chi) == RoundChi(chi) < 250000

\* chi_square < 25, on the value before rounding
BelowCritical(chi) == chi.whole < 250000

\* the report of an empty window
EmptyFairness(risk) ==
    [raised |-> FALSE, risk_level |-> risk, chi_square_score |-> 0,
     deviation_score |-> 0, is_fair |-> TRUE, slot_comparisons |-> <<>>,
     overperforming_slots |-> <<>>, underperforming_slots |-> <<>>]

\* one entry of slot_comparisons
Comparison(slot_id, observed, n) ==
    LET theo == TheoreticalGet(slot_id)
    IN  [slot |-> slot_id,
         observed |-> observed,
         expected |-> RoundExpected(theo, n),
         actual_pct |-> RoundHalfEven(observed * 10000, n),
         theoretical_pct |-> theo,
         deviation |-> RoundDeviation(observed, n, theo)]

\* deviation > 1.0 and deviation < -1.0, on the deviation before rounding:
\* deviation = (observed * 10000 - theo * n) / (100 * n) percent
Overperforms(slot_id, observed, n) ==
    observed * 10000 - TheoreticalGet(slot_id) * n > 100 * n

\* the test on the deviation the record reports
UnderperformsRounded(slot_id, observed, n) ==
    RoundDeviation(observed, n, TheoreticalGet(slot_id)) < -100

Underperforms(slot_id, observed, n) ==
    observed * 10000 - TheoreticalGet(slot_id) * n < -100 * n

\* the slot ids of i..15 flagged in flags, in increasing order (the lists
\* are appended to inside the loop over range(16))
RECURSIVE SlotList(_, _)
SlotList(flags, i) ==
    IF i > 15 THEN <<>>
    ELSE (IF flags[i] THEN <<i>> ELSE <<>>) \o SlotList(flags, i + 1)

analyze_fairness(ds, risk) ==
    IF SlotTypeError(ds) THEN Raise("TypeError")
    ELSE IF Len(ds) = 0 THEN EmptyFairness(risk)
    ELSE
    LET counts == fairness_slot_counts(ds)
        n == Len(ds)
        chi_square == ChiSquare(counts, n)
        comparisons == [i \in 1..16 |-> Comparison(i - 1, counts[i - 1], n)]
        total_deviation == SumSeq([i \in 1..16 |-> Abs(comparisons[i].deviation)])
        Over(i) == Overperforms(i, counts[i], n)
        Under(i) == ~Over(i) /\ Underperforms(i, counts[i], n)
    IN  [raised |-> FALSE,
         risk_level |-> risk,
         chi_square_score |-> RoundChi(chi_square),
         \* min(total_deviation / 100, 1.0) rounded to 4 decimals
         deviation_score |-> Min2(total_deviation, 10000),
         is_fair |-> BelowCritical(chi_square),
         slot_comparisons |-> comparisons,
         overperforming_slots |-> SlotList([i \in 0..15 |-> Over(i)], 0),
         underperforming_slots |-> SlotList([i \in 0..15 |-> Under(i)], 0)]

---------------------------------------------------------------------------
(* PlinkoCalculator.compare_risk_levels *)

\* sum(1 for m in multipliers if <test>), flags[k] being the test's
\* value on the k-th multiplier
CountIf(flags) == Cardinality({k \in DOMAIN flags : flags[k]})

\* sorted(multipliers)
RECURSIVE SortedSeq(_)
SortedSeq(ms) ==
    IF ms = <<>> THEN <<>>
    ELSE LET k == CHOOSE i \in 1..Len(ms) : \A j \in 1..Len(ms) : ms[i] <= ms[j]
         IN  <<ms[k]>> \o SortedSeq(SubSeq(ms, 1, k - 1) \o SubSeq(ms, k + 1, Len(ms)))

\* round(statistics.median(multipliers), 4), in ten-thousandths
Median(ms) ==
    LET srt == SortedSeq(ms)
        n == Len(ms)
    IN  IF n % 2 = 1 THEN srt[(n + 1) \div 2] * 1000
        ELSE (srt[n \div 2] + srt[n \div 2 + 1]) * 500

\* the win tiers of a multiplier m (in tenths): m < 1.0, 1.0 <= m < 2.0,
\* 2.0 <= m < 10.0, m >= 10.0
Loss(m) == m < 10

\* the small-win tier ending at 1.5
SmallBelow15(m) == 10 <= m /\ m < 15

Small(m) == 10 <= m /\ m < 20

Medium(m) == 20 <= m /\ m < 100

Big(m) == m >= 100

\* The RiskLevelComparison of one risk level with a non-empty window.
\* std_deviation (statistics.stdev, a square root) is not modelled: no
\* property checked here reads it.
Comparison1(risk, ds) ==
    LET multipliers == Multipliers(ds)
        n == Len(multipliers)
        slot_mults == SlotsGet(risk, "medium")
        max_mult == MaxValue(slot_mults)
        Jackpot(m) == m >= max_mult
    IN  [risk_level |-> risk,
         total_drops |-> n,
         avg_multiplier |-> RoundHalfEven(SumSeq(multipliers) * 1000, n),
         median_multiplier |-> Median(multipliers),
         rtp_actual |-> RoundHalfEven(SumSeq(multipliers) * 1000, n),
         loss_rate |-> RoundHalfEven(CountIf([k \in 1..n |-> Loss(multipliers[k])]) * 10000, n),
         small_win_rate |-> RoundHalfEven(CountIf([k \in 1..n |-> Small(multipliers[k])]) * 10000, n),
         medium_win_rate |-> RoundHalfEven(CountIf([k \in 1..n |-> Medium(multipliers[k])]) * 10000, n),
         big_win_rate |-> RoundHalfEven(CountIf([k \in 1..n |-> Big(multipliers[k])]) * 10000, n),
         jackpot_rate |-> RoundHalfEven(CountIf([k \in 1..n |-> Jackpot(multipliers[k])]) * 1000000, n),
         max_multiplier |-> max_mult]

\* the all_drops argument is a dict in insertion order: a sequence
\* windows of <<risk, drops>>
RECURSIVE ComparisonList(_)
ComparisonList(windows) ==
    IF windows = <<>> THEN <<>>
    ELSE LET risk == Head(windows)[1]
             ds == Head(windows)[2]
         IN  (IF ds = <<>> THEN <<>> ELSE <<Comparison1(risk, ds)>>)
             \o ComparisonList(Tail(windows))

compare_risk_levels(windows) ==
    IF \E k \in 1..Len(windows) : MultiplierTypeError(windows[k][2])
    THEN Raise("TypeError")
    ELSE [raised |-> FALSE, results |-> ComparisonList(windows)]

---------------------------------------------------------------------------
(* PlinkoCalculator.track_jackpots *)

\* theo_prob = 0.3 (percent), in tenths of a percent
theo_prob == 3

\* expected_drops = int(100 / theo_prob)
expected_drops == 1000 \div theo_prob

\* the drought test on 100 / theo_prob itself, not truncated to an integer
DroughtUntruncated(drops_since) == 2 * drops_since * theo_prob > 3 * 1000

\* drought = drops_since > expected_drops * 1.5
Drought(drops_since) == 2 * drops_since > 3 * expected_drops

\* the positions whose multiplier is above max_mult
JackpotIndicesAbove(ds, max_mult) ==
    LET hits == {i \in 0..(Len(ds) - 1) : Multiplier(ds[i + 1]).v > max_mult}
    IN  [r \in 1..Cardinality(hits) |->
            CHOOSE i \in hits : Cardinality({j \in hits : j < i}) = r - 1]

\* the 0-based positions i with multiplier >= max_mult, in increasing order
\* (the r-th of them has r - 1 of them below it)
JackpotIndices(ds, max_mult) ==
    LET hits == {i \in 0..(Len(ds) - 1) : Multiplier(ds[i + 1]).v >= max_mult}
    IN  [r \in 1..Cardinality(hits) |->
            CHOOSE i \in hits : Cardinality({j \in hits : j < i}) = r - 1]

\* the gaps taken from each jackpot to the next one down the window
gaps_forward(jackpot_indices) ==
    [i \in 1..(Len(jackpot_indices) - 1) |->
        jackpot_indices[i + 1] - jackpot_indices[i]]

\* gaps = [jackpot_indices[i] - jackpot_indices[i+1]
\*         for i in range(len(jackpot_indices)-1)]
gaps(jackpot_indices) ==
    [i \in 1..(Len(jackpot_indices) - 1) |->
        jackpot_indices[i] - jackpot_indices[i + 1]]

\* the fallback of the other analyzers
JackpotSlotMultsMedium(risk) == SlotsGet(risk, "medium")

\* slot_mults of track_jackpots
JackpotSlotMults(risk) == SlotsGet(risk, "high")

track_jackpots(ds, risk) ==
    IF MultiplierTypeError(ds) THEN Raise("TypeError")
    ELSE
    LET max_mult == MaxValue(JackpotSlotMults(risk))
        jackpot_indices == JackpotIndices(ds, max_mult)
        total == Len(jackpot_indices)
        drops_since == IF total > 0 THEN jackpot_indices[1] ELSE Len(ds)
        last_time == IF total > 0 /\ "created_at" \in DOMAIN ds[jackpot_indices[1] + 1]
                     THEN ds[jackpot_indices[1] + 1]["created_at"]
                     ELSE None
        \* avg_between is set when there are at least two jackpots, and
        \* reported (rounded to 1 decimal, in tenths) when it is not zero
        avg_between == IF total > 1 /\ SumSeq(gaps(jackpot_indices)) # 0
                       THEN Num(RoundHalfEven(SumSeq(gaps(jackpot_indices)) * 10,
                                              Len(gaps(jackpot_indices))))
                       ELSE None
    IN  [raised |-> FALSE,
         total_jackpots |-> total,
         last_jackpot_time |-> last_time,
         drops_since_jackpot |-> drops_since,
         average_drops_between |-> avg_between,
         jackpot_probability |-> theo_prob,
         current_drought |-> Drought(drops_since)]

---------------------------------------------------------------------------
(* The calculator applied to sample windows *)

NoResult == [op |-> "none"]

\* risk levels handed to the calculator; "extreme" is not a configured one
RiskInputs == {"low", "medium", "high", "extreme"}

\* well-formed sample outcomes
SampleDrops ==
    { [slot |-> Num(7), multiplier |-> Num(90)],
      [slot |-> Num(8), multiplier |-> Num(90)],
      [slot |-> Num(0), multiplier |-> Num(3)],
      [slot |-> Num(16), multiplier |-> Num(1100), created_at |-> Num(1)],
      [slot |-> Num(-1), multiplier |-> Num(14)],
      [landing_slot |-> Num(3), multiplier |-> Num(15)] }

\* outcomes with a missing or a null field
MalformedDrops ==
    { [slot |-> None, multiplier |-> Num(20)],
      [slot |-> Num(7), multiplier |-> None],
      [multiplier |-> Num(20)],
      [slot |-> Num(9)] }

SeqsUpTo(S, n) == UNION {[1..k -> S] : k \in 0..n}

\* one malformed outcome at any position of a short well-formed window
MalformedWindows ==
    {a \o <<m>> \o b : a \in SeqsUpTo(SampleDrops, 1), m \in MalformedDrops,
                       b \in SeqsUpTo(SampleDrops, MaxCtx - 1)}

\* a collector as __init__ leaves it, before any call
CollectorNew ==
    /\ running = FALSE
    /\ drops_collected = 0
    /\ saved = NoResult
    /\ cpc = "idle"
    /\ retry_count = 0
    /\ wait_time = 0
    /\ generated = 0
    /\ outcome = ""
    /\ failures = 0
    /\ stopped = FALSE

\* no calculator call logged, a collector with the default parameters
Quiescent ==
    /\ calls = <<>>
    /\ max_retries = 5
    /\ retry_delay = 2
    /\ CollectorNew

\* no request in flight, an empty store
ServiceIdle ==
    /\ store = <<>>
    /\ now = 0
    /\ pc = "idle"
    /\ step = 0
    /\ period = ""
    /\ hours = 0
    /\ cutoff = None
    /\ all_drops = <<>>
    /\ queries = <<>>
    /\ report = NoResult

Init ==
    /\ drops \in SeqsUpTo(SampleDrops, MaxLen) \cup MalformedWindows
    /\ risk_level \in RiskInputs
    /\ result = NoResult
    /\ ServiceIdle
    /\ Quiescent

AnalyzeSlotDistribution ==
    /\ result = NoResult
    /\ result' = [op |-> "analyze_slot_distribution",
                  out |-> analyze_slot_distribution(drops, risk_level)]
    /\ UNCHANGED <<drops, risk_level, svcVars, calls, colVars>>

AnalyzeFairness ==
    /\ result = NoResult
    /\ result' = [op |-> "analyze_fairness",
                  out |-> analyze_fairness(drops, risk_level)]
    /\ UNCHANGED <<drops, risk_level, svcVars, calls, colVars>>

CompareRiskLevels ==
    /\ result = NoResult
    /\ result' = [op |-> "compare_risk_levels",
                  out |-> compare_risk_levels(<< <<risk_level, drops>> >>)]
    /\ UNCHANGED <<drops, risk_level, svcVars, calls, colVars>>

TrackJackpots ==
    /\ result = NoResult
    /\ result' = [op |-> "track_jackpots",
                  out |-> track_jackpots(drops, risk_level)]
    /\ UNCHANGED <<drops, risk_level, svcVars, calls, colVars>>

Next ==
    \/ AnalyzeSlotDistribution
    \/ AnalyzeFairness
    \/ CompareRiskLevels
    \/ TrackJackpots

Spec == Init /\ [][Next]_vars

---------------------------------------------------------------------------
(* One PlinkoCalculator called again and again, on the same and on other
   windows: every call is logged with its arguments, its output and the
   window it leaves behind *)

RepeatWindows ==
    { <<>>,
      << [slot |-> Num(7), multiplier |-> Num(1100)], [slot |-> Num(0), multiplier |-> Num(3)] >>,
      << [slot |-> Num(0), multiplier |-> Num(3)], [slot |-> Num(7), multiplier |-> Num(1100)] >> }

RepeatInit ==
    /\ drops \in RepeatWindows
    /\ risk_level \in {"low", "high"}
    /\ result = NoResult
    /\ ServiceIdle
    /\ Quiescent

\* a call of the analyzer op returns out and leaves the window as left
Logged(op, out, left) ==
    /\ Len(calls) < MaxCalls
    /\ result' = [op |-> op, out |-> out]
    /\ drops' = left
    /\ calls' = Append(calls, [op |-> op, drops |-> drops, risk_level |-> risk_level,
                               out |-> out, left |-> left])
    /\ UNCHANGED <<risk_level, svcVars, colVars>>

RepeatSlotDistribution ==
    Logged("analyze_slot_distribution", analyze_slot_distribution(drops, risk_level), drops)

RepeatFairness ==
    Logged("analyze_fairness", analyze_fairness(drops, risk_level), drops)

RepeatComparison ==
    Logged("compare_risk_levels", compare_risk_levels(<< <<risk_level, drops>> >>), drops)

\* a tracker that remembers the window of the call before
RepeatTrackerRemembering ==
    Logged("track_jackpots",
           track_jackpots((IF calls = <<>> THEN <<>> ELSE calls[Len(calls)].drops) \o drops,
                          risk_level),
           drops)

RepeatTracker ==
    Logged("track_jackpots", track_jackpots(drops, risk_level), drops)

\* the caller turns to another window or risk level
HandWindow ==
    /\ \E w \in RepeatWindows, r \in {"low", "high"} :
          /\ <<w, r>> # <<drops, risk_level>>
          /\ drops' = w
          /\ risk_level' = r
    /\ UNCHANGED <<result, svcVars, calls, colVars>>

RepeatNext ==
    \/ RepeatSlotDistribution
    \/ RepeatFairness
    \/ RepeatComparison
    \/ RepeatTracker
    \/ HandWindow

SpecRepeat == RepeatInit /\ [][RepeatNext]_vars

---------------------------------------------------------------------------
(* The jackpot tracker applied to long windows *)

\* an outcome below every maximum multiplier, and a high-risk jackpot
Filler == [slot |-> Num(3), multiplier |-> Num(2)]
JackpotDrop == [slot |-> Num(7), multiplier |-> Num(1100), created_at |-> Num(1)]

\* window lengths: the shortest ones and those around 1.5 * 100 / theo_prob
DroughtLengths == {n \in 0..MaxDrought : n < 3 \/ n + 8 > MaxDrought}

\* the windows of length n with no jackpot, with one near an end of the
\* window, and with two, three or four among the first five outcomes
DroughtWindows(n) ==
    {[k \in 1..n |-> Filler]}
    \cup {[k \in 1..n |-> IF k = j THEN JackpotDrop ELSE Filler] :
            j \in {1, 2, n - 1, n} \cap 1..n}
    \cup {[k \in 1..n |-> IF k \in J THEN JackpotDrop ELSE Filler] :
            J \in {{1, 2}, {2, 5}, {1, 3, 4}, {1, 2, 3, 5}} \cap SUBSET (1..n)}

DroughtInit ==
    /\ \E n \in DroughtLengths : drops \in DroughtWindows(n)
    /\ risk_level \in {"medium", "high", "extreme"}
    /\ result = NoResult
    /\ ServiceIdle
    /\ Quiescent

DroughtNext == TrackJackpots

SpecDrought == DroughtInit /\ [][DroughtNext]_vars

---------------------------------------------------------------------------
(* The slot analyzers applied to windows at the boundaries of their        *)
(* roundings and thresholds                                                *)

\* the window with counts[i] outcomes in slot i, slot after slot, and then
\* out outcomes in slot -1; every multiplier is 1.0
RunWindow(counts, out) ==
    [k \in 1..(SumTo(counts, 15) + out) |->
        [slot |-> Num(IF k > SumTo(counts, 15) THEN -1
                      ELSE CHOOSE i \in 0..15 :
                              SumTo(counts, i - 1) < k /\ k <= SumTo(counts, i)),
         multiplier |-> Num(10)]]

\* window lengths: 1 and 2 have fair windows, 25 has a chi-square just
\* below 25, 32 has percentages with a 5 in the third decimal, 91 has
\* deviations just beyond 1.0
BoundaryLengths == {1, 2, 25, 32, 91}

\* 19 outcomes in slots 6..12 and 6 off the board: the chi-square statistic
\* is 24.99997
NearCritical ==
    RunWindow([i \in 0..15 |->
                 CASE i \in {6, 12} -> 1
                   [] i \in {8, 9} -> 3
                   [] i = 10 -> 6
                   [] i = 11 -> 5
                   [] OTHER -> 0], 6)

\* the windows of length n with c outcomes in slot s and the others in
\* slot 7 or off the board
ProbeWindows(n) ==
    {RunWindow([i \in 0..15 |-> (IF i = s THEN c ELSE 0)
                                + (IF i = 7 /\ onBoard THEN n - c ELSE 0)],
               IF onBoard THEN 0 ELSE n - c) :
        s \in 0..15, c \in 0..(IF n < MaxHits THEN n ELSE MaxHits),
        onBoard \in BOOLEAN}

\* 10 outcomes spread like the theoretical distribution: the absolute
\* deviations sum to 83.8, below 100
NearTheoretical ==
    RunWindow([i \in 0..15 |->
                 CASE i \in {4, 7} -> 1
                   [] i \in {5, 6, 9, 10} -> 2
                   [] OTHER -> 0], 0)

\* one outcome in each of the slots 3..9: every percentage is 100/7
SevenSlots == RunWindow([i \in 0..15 |-> IF i \in 3..9 THEN 1 ELSE 0], 0)

BoundaryWindows ==
    {NearCritical, NearTheoretical, SevenSlots}
    \cup UNION {ProbeWindows(n) : n \in BoundaryLengths}

BoundaryInit ==
    /\ drops \in BoundaryWindows
    /\ risk_level \in {"low", "high"}
    /\ result = NoResult
    /\ ServiceIdle
    /\ Quiescent

BoundaryNext ==
    \/ AnalyzeSlotDistribution
    \/ AnalyzeFairness

SpecBoundary == BoundaryInit /\ [][BoundaryNext]_vars

---------------------------------------------------------------------------
(* Properties of the calculator *)

\* the last call was op and it returned a report
Returned(op) == result.op = op /\ ~result.out.raised

\* the window has n > 0 outcomes, all with numeric fields
NonEmpty == Len(drops) > 0

\* the positions of the window whose landing slot is i
Landed(i) == {k \in 1..Len(drops) : LandingSlot(drops[k]) = Num(i)}

\* the positions of the window whose landing slot is outside 0..15
OutOfRange == {k \in 1..Len(drops) : LandingSlot(drops[k]).v \notin 0..15}

\* the per-slot hit counts a report carries
HitCounts ==
    IF result.op = "analyze_slot_distribution"
    THEN [i \in 0..15 |-> result.out.slots[i + 1].hit_count]
    ELSE [i \in 0..15 |-> result.out.slot_comparisons[i + 1].observed]

UnknownRisk == risk_level \notin DOMAIN PLINKO_SLOTS

\* the multipliers of the window that reach m (in tenths)
Reaching(m) == {k \in 1..Len(drops) : Multiplier(drops[k]).v >= m}

\* C3 as stated: with a risk level that is not low/medium/high, every
\* analyzer that consults the multiplier table returns and uses the medium
\* table (maximum 9.0), track_jackpots included.
C3_MediumFallbackEverywhere ==
    UnknownRisk /\ result.op # "none" /\ ~result.out.raised =>
        /\ Returned("analyze_slot_distribution") /\ NonEmpty =>
             \A i \in 0..15 :
                result.out.slots[i + 1].multiplier = PLINKO_SLOTS["medium"][i]
        /\ Returned("compare_risk_levels") =>
             \A k \in 1..Len(result.out.results) :
                result.out.results[k].max_multiplier = 90
        /\ Returned("track_jackpots") =>
             result.out.total_jackpots = Cardinality(Reaching(90))

\* C3 as amended: with a risk level that is not low/medium/high,
\* analyze_slot_distribution and compare_risk_levels use the medium table
\* (maximum 9.0) and track_jackpots uses the high table (maximum 110.0);
\* none of them fails on a window of well-formed outcomes.
C3_FallbackPerAnalyzer ==
    UnknownRisk /\ result.op # "none" =>
        /\ (~SlotTypeError(drops) /\ ~MultiplierTypeError(drops)) => ~result.out.raised
        /\ Returned("analyze_slot_distribution") /\ NonEmpty =>
             \A i \in 0..15 :
                result.out.slots[i + 1].multiplier = PLINKO_SLOTS["medium"][i]
        /\ Returned("compare_risk_levels") =>
             \A k \in 1..Len(result.out.results) :
                result.out.results[k].max_multiplier = 90
        /\ Returned("track_jackpots") =>
             result.out.total_jackpots = Cardinality(Reaching(1100))

\* an unknown risk level, and a window with a 9.0 outcome that is a jackpot
\* under the medium table and none under the high table
C3_Witness ==
    /\ UnknownRisk
    /\ Returned("track_jackpots")
    /\ Reaching(90) # {}
    /\ Reaching(1100) = {}
    /\ result.out.total_jackpots = 0

\* C4: the theoretical distribution is a probability mass function over the
\* 16 slots: its values sum to 1 and the value at slot i equals the value at
\* slot 15 - i; so do the theoretical percentages of every distribution report.
C4_TheoreticalIsPmf ==
    /\ SumTo(THEORETICAL_DISTRIBUTION, 15) = 10000
    /\ \A i \in 0..15 : THEORETICAL_DISTRIBUTION[i] = THEORETICAL_DISTRIBUTION[15 - i]
    /\ Returned("analyze_slot_distribution") /\ NonEmpty =>
         SumSeq([i \in 1..16 |-> result.out.slots[i].theoretical_percentage]) = 10000

\* largest window size searched for an exact match of the distribution
MaxMatchN == 2000

\* the observed counts equal theoretical_pmf[slot] * n in every slot
ExactMatch(counts, n) ==
    \A i \in 0..15 : counts[i] * 10000 = THEORETICAL_DISTRIBUTION[i] * n

\* C5: a non-empty window whose observed count in every slot equals
\* theoretical_pmf[slot] * n yields chi_square_score = 0, is_fair = true and
\* empty over/underperforming lists, and such a window exists for some n > 0
\* (its counts are whole numbers and add up to at most n).
C5_ExactMatchIsFair ==
    /\ Returned("analyze_fairness") /\ NonEmpty /\ ExactMatch(HitCounts, Len(drops)) =>
         /\ result.out.chi_square_score = 0
         /\ result.out.is_fair
         /\ result.out.overperforming_slots = <<>>
         /\ result.out.underperforming_slots = <<>>
    /\ \E n \in 1..MaxMatchN :
         /\ \A i \in 0..15 : (THEORETICAL_DISTRIBUTION[i] * n) % 10000 = 0
         /\ SumTo([i \in 0..15 |-> (THEORETICAL_DISTRIBUTION[i] * n) \div 10000], 15) <= n

\* the window has exactly one outcome with a missing or null slot or multiplier
OneMalformed ==
    Cardinality({k \in 1..Len(drops) :
                    \/ ({"slot", "landing_slot"} \cap DOMAIN drops[k]) = {}
                    \/ "multiplier" \notin DOMAIN drops[k]
                    \/ ~IsNum(LandingSlot(drops[k]))
                    \/ ~IsNum(Multiplier(drops[k]))}) = 1

\* C6: on a window in which one outcome has a missing or null slot or
\* multiplier, every analyzer returns a report; none raises.
C6_MalformedOutcomeTolerated ==
    OneMalformed /\ result.op # "none" => ~result.out.raised

\* C7: for a non-empty window of n outcomes the 16 hit counts of
\* analyze_slot_distribution, and the observed counts of analyze_fairness, add
\* up to at most n, and to n exactly when no landing slot is outside 0..15.
C7_CountsSumToAtMostN ==
    (Returned("analyze_slot_distribution") \/ Returned("analyze_fairness")) /\ NonEmpty =>
        LET total == SumTo(HitCounts, 15)
        IN  /\ total <= Len(drops)
            /\ total = Len(drops) <=> OutOfRange = {}

\* a window with outcomes inside and outside the slot range
C7_Witness ==
    /\ Returned("analyze_fairness")
    /\ OutOfRange # {}
    /\ SumTo(HitCounts, 15) > 0
    /\ SumTo(HitCounts, 15) < Len(drops)

\* Scenario A: slots [7, 8, 7, 0] with multipliers [9.0, 9.0, 9.0, 0.3]
ScenarioA ==
    << [slot |-> Num(7), multiplier |-> Num(90)],
       [slot |-> Num(8), multiplier |-> Num(90)],
       [slot |-> Num(7), multiplier |-> Num(90)],
       [slot |-> Num(0), multiplier |-> Num(3)] >>

\* C8: in analyze_slot_distribution an outcome whose slot is outside 0..15
\* adds to no hit count, but counts in total_drops and in the denominator of
\* the percentages, and its multiplier counts in avg_multiplier; Scenario A
\* gives n = 4, counts 2/1/1 (50%, 25%, 25%) for slots 7/8/0, jackpot_rate
\* 75.0 and avg_multiplier 6.825.
C8_OutOfRangeCountsInTotals ==
    Returned("analyze_slot_distribution") /\ NonEmpty =>
        LET out == result.out
            n == Len(drops)
            all == SumSeq([k \in 1..n |-> Multiplier(drops[k]).v])
        IN  /\ out.total_drops = n
            /\ \A i \in 0..15 :
                  /\ out.slots[i + 1].hit_count = Cardinality(Landed(i))
                  /\ out.slots[i + 1].percentage
                        = RoundHalfEven(Cardinality(Landed(i)) * 10000, n)
            /\ out.avg_multiplier = RoundHalfEven(all * 1000, n)
            /\ drops = ScenarioA =>
                  /\ out.total_drops = 4
                  /\ out.slots[8].hit_count = 2 /\ out.slots[8].percentage = 5000
                  /\ out.slots[9].hit_count = 1 /\ out.slots[9].percentage = 2500
                  /\ out.slots[1].hit_count = 1 /\ out.slots[1].percentage = 2500
                  /\ out.jackpot_rate = 750000
                  /\ out.avg_multiplier = 68250

\* a distribution report of a window with an out-of-range outcome
C8_Witness ==
    /\ Returned("analyze_slot_distribution")
    /\ Len(drops) >= 2
    /\ OutOfRange # {}
    /\ SumTo(HitCounts, 15) = Len(drops) - Cardinality(OutOfRange)
    /\ result.out.total_drops = Len(drops)

\* C9: most_hit_slot is the lowest slot among those with the maximum hit
\* count, least_hit_slot the highest slot among those with the minimum.
C9_TieBreaks ==
    Returned("analyze_slot_distribution") /\ NonEmpty =>
        LET most == {i \in 0..15 : \A j \in 0..15 : HitCounts[j] <= HitCounts[i]}
            least == {i \in 0..15 : \A j \in 0..15 : HitCounts[i] <= HitCounts[j]}
        IN  /\ result.out.most_hit_slot \in most
            /\ \A i \in most : result.out.most_hit_slot <= i
            /\ result.out.least_hit_slot \in least
            /\ \A i \in least : i <= result.out.least_hit_slot

\* a report where two slots tie for the maximum and several for the minimum
C9_Witness ==
    /\ Returned("analyze_slot_distribution")
    /\ NonEmpty
    /\ Cardinality({i \in 0..15 : \A j \in 0..15 : HitCounts[j] <= HitCounts[i]}) = 2
    /\ Cardinality({i \in 0..15 : \A j \in 0..15 : HitCounts[i] <= HitCounts[j]}) > 1
    /\ result.out.most_hit_slot = 7
    /\ result.out.least_hit_slot = 15

\* C10: on an empty window analyze_slot_distribution returns total_drops 0,
\* most_hit_slot 7, least_hit_slot 0, avg_multiplier 1.0 and rates 0, and
\* analyze_fairness returns chi_square_score 0, deviation_score 0, is_fair
\* true and empty lists; neither raises.
C10_EmptyWindowDefaults ==
    drops = <<>> =>
        /\ result.op = "analyze_slot_distribution" =>
             /\ ~result.out.raised
             /\ result.out.total_drops = 0
             /\ result.out.most_hit_slot = 7
             /\ result.out.least_hit_slot = 0
             /\ result.out.avg_multiplier = 10000
             /\ result.out.edge_rate = 0
             /\ result.out.center_rate = 0
             /\ result.out.jackpot_rate = 0
        /\ result.op = "analyze_fairness" =>
             /\ ~result.out.raised
             /\ result.out.chi_square_score = 0
             /\ result.out.deviation_score = 0
             /\ result.out.is_fair
             /\ result.out.slot_comparisons = <<>>
             /\ result.out.overperforming_slots = <<>>
             /\ result.out.underperforming_slots = <<>>

\* both analyzers have reported on the empty window
C10_Witness ==
    /\ drops = <<>>
    /\ result.op = "analyze_fairness"
    /\ result.out.is_fair

\* the chi-square statistic of the window, before rounding, is below 25
StatisticBelow25 == ChiSquare(HitCounts, Len(drops)).whole < 250000

\* C11 as stated: in the FairnessReport of a non-empty window is_fair is
\* true exactly when the reported chi_square_score is below 25.
C11_FairIffScoreBelow25 ==
    Returned("analyze_fairness") /\ NonEmpty =>
        (result.out.is_fair <=> result.out.chi_square_score < 250000)

\* C11: in the FairnessReport of a non-empty window is_fair is true exactly
\* when the chi-square statistic before its rounding to 4 decimals is below
\* 25; so a reported score below 25 goes with is_fair true, one above 25 with
\* is_fair false, and a reported score of 25.0 with either.
C11_FairIffStatisticBelow25 ==
    Returned("analyze_fairness") /\ NonEmpty =>
        /\ result.out.is_fair <=> StatisticBelow25
        /\ result.out.chi_square_score < 250000 => result.out.is_fair
        /\ result.out.chi_square_score > 250000 => ~result.out.is_fair

C11_Witness ==
    /\ Returned("analyze_fairness")
    /\ drops = NearCritical
    /\ result.out.chi_square_score = 250000
    /\ result.out.is_fair

\* the deviation the comparison record of slot i reports, in hundredths
ReportedDeviation(i) == result.out.slot_comparisons[i + 1].deviation

\* the deviation of slot i before rounding is above (sign = 1) or below
\* (sign = -1) one percentage point
BeyondOnePoint(i, sign) ==
    sign * (HitCounts[i] * 10000 - TheoreticalGet(i) * Len(drops)) > 100 * Len(drops)

\* the set of the members of a list
Members(list) == {list[k] : k \in 1..Len(list)}

\* C12 as stated: overperforming_slots is the set of slots whose reported
\* deviation is above +1.0 and underperforming_slots the set of those whose
\* reported deviation is below -1.0.
C12_ListsOnReportedDeviation ==
    Returned("analyze_fairness") /\ NonEmpty =>
        /\ Members(result.out.overperforming_slots)
             = {i \in 0..15 : ReportedDeviation(i) > 100}
        /\ Members(result.out.underperforming_slots)
             = {i \in 0..15 : ReportedDeviation(i) < -100}

\* C12: overperforming_slots is the increasing list of the slots whose
\* deviation before rounding is above +1.0, underperforming_slots that of the
\* slots whose deviation before rounding is below -1.0; the lists are
\* disjoint, a slot reported above +1.0 (below -1.0) is in the first
\* (second), a slot of a list is reported at +1.0 or more (-1.0 or less), and
\* a slot reported strictly inside is in neither.
C12_ListsOnUnroundedDeviation ==
    Returned("analyze_fairness") /\ NonEmpty =>
        LET over == result.out.overperforming_slots
            under == result.out.underperforming_slots
        IN  /\ Members(over) = {i \in 0..15 : BeyondOnePoint(i, 1)}
            /\ Members(under) = {i \in 0..15 : BeyondOnePoint(i, -1)}
            /\ \A k \in 1..(Len(over) - 1) : over[k] < over[k + 1]
            /\ \A k \in 1..(Len(under) - 1) : under[k] < under[k + 1]
            /\ Members(over) \cap Members(under) = {}
            /\ \A i \in 0..15 :
                 /\ ReportedDeviation(i) > 100 => i \in Members(over)
                 /\ ReportedDeviation(i) < -100 => i \in Members(under)
                 /\ i \in Members(over) => ReportedDeviation(i) >= 100
                 /\ i \in Members(under) => ReportedDeviation(i) <= -100

C12_Witness ==
    /\ Returned("analyze_fairness")
    /\ Len(drops) = 91
    /\ HitCounts[2] = 4
    /\ ReportedDeviation(2) = -100
    /\ 2 \in Members(result.out.underperforming_slots)
    /\ 7 \in Members(result.out.overperforming_slots)

\* the per-slot records of the report, of either slot analyzer, as
\* [actual, theoretical, deviation] in hundredths of a percent
SlotRecords ==
    IF result.op = "analyze_slot_distribution"
    THEN [i \in 0..15 |->
            [actual |-> result.out.slots[i + 1].percentage,
             theoretical |-> result.out.slots[i + 1].theoretical_percentage,
             deviation |-> result.out.slots[i + 1].deviation]]
    ELSE [i \in 0..15 |->
            [actual |-> result.out.slot_comparisons[i + 1].actual_pct,
             theoretical |-> result.out.slot_comparisons[i + 1].theoretical_pct,
             deviation |-> result.out.slot_comparisons[i + 1].deviation]]

SlotAnalyzerReturned ==
    /\ Returned("analyze_slot_distribution") \/ Returned("analyze_fairness")
    /\ NonEmpty

\* the actual percentage of slot i has a 5 in its third decimal and nothing
\* after it
HalfwayPercentage(i) ==
    2 * ((HitCounts[i] * 10000) % Len(drops)) = Len(drops)

\* C13 as stated: in every per-slot record the deviation is the reported
\* actual percentage less the reported theoretical percentage (whose
\* rounding to 2 decimals is itself).
C13_DeviationOfReported ==
    SlotAnalyzerReturned =>
        \A i \in 0..15 :
            SlotRecords[i].deviation
              = SlotRecords[i].actual - SlotRecords[i].theoretical

\* C13: in every per-slot record the deviation is the rounding to 2
\* decimals of the difference of the percentages before their rounding: it
\* is the reported actual less the reported theoretical percentage unless
\* the actual percentage is halfway between two 2-decimal values, and then
\* it is within 0.01 of it; one outcome of 32 in slot 0 is reported as 3.12
\* less 0.3 with deviation 2.83.
C13_DeviationOfUnrounded ==
    SlotAnalyzerReturned =>
        /\ \A i \in 0..15 :
             LET rec == SlotRecords[i]
             IN  /\ ~HalfwayPercentage(i) =>
                       rec.deviation = rec.actual - rec.theoretical
                 /\ Abs(rec.deviation - (rec.actual - rec.theoretical)) <= 1
        /\ Len(drops) = 32 /\ HitCounts[0] = 1 =>
             SlotRecords[0] = [actual |-> 312, theoretical |-> 30, deviation |-> 283]

C13_Witness ==
    /\ Returned("analyze_slot_distribution")
    /\ Len(drops) = 32
    /\ HitCounts[0] = 1
    /\ SlotRecords[0].deviation = 283
    /\ SlotRecords[0].actual - SlotRecords[0].theoretical = 282

\* the window with its outcomes in the opposite order, and with its first
\* outcome moved to the end
Reversed(ds) == [k \in 1..Len(ds) |-> ds[Len(ds) + 1 - k]]
Rotated(ds) == [k \in 1..Len(ds) |-> ds[(k % Len(ds)) + 1]]

\* the sum over the 16 slots of |deviation|, of the reported deviations, in
\* hundredths of a percentage point
TotalDeviation ==
    SumSeq([i \in 1..16 |->
              IF ReportedDeviation(i - 1) < 0 THEN -ReportedDeviation(i - 1)
              ELSE ReportedDeviation(i - 1)])

\* C14: deviation_score of analyze_fairness is min(sum over the 16 slots of
\* |deviation| / 100, 1.0), with the deviations the records report; it lies
\* in [0, 1] and is the same for the window in another order (reversed,
\* rotated: the orders of a window are reached by these two).
C14_DeviationScore ==
    Returned("analyze_fairness") /\ NonEmpty =>
        /\ result.out.deviation_score
             = (IF TotalDeviation < 10000 THEN TotalDeviation ELSE 10000)
        /\ result.out.deviation_score \in 0..10000
        /\ analyze_fairness(Reversed(drops), risk_level).deviation_score
             = result.out.deviation_score
        /\ analyze_fairness(Rotated(drops), risk_level).deviation_score
             = result.out.deviation_score

\* a window under the cap, and it differs from its reverse
C14_Witness ==
    /\ Returned("analyze_fairness")
    /\ drops = NearTheoretical
    /\ Reversed(drops) # drops
    /\ result.out.deviation_score = 8380

\* the entry compare_risk_levels returned for the one window it was given
Entry == result.out.results[1]

\* the positions of the window whose multiplier is below 1.0, in
\* [1.0, 2.0), in [2.0, 10.0), and 10.0 or more (multipliers in tenths)
Tiers ==
    LET m(k) == Multiplier(drops[k]).v
    IN  << {k \in 1..Len(drops) : m(k) < 10},
           {k \in 1..Len(drops) : 10 <= m(k) /\ m(k) < 20},
           {k \in 1..Len(drops) : 20 <= m(k) /\ m(k) < 100},
           {k \in 1..Len(drops) : 100 <= m(k)} >>

TierRates ==
    <<Entry.loss_rate, Entry.small_win_rate, Entry.medium_win_rate, Entry.big_win_rate>>

\* Scenario D: multipliers [0.5, 1.5, 5.0, 20.0]
ScenarioD ==
    << [slot |-> Num(7), multiplier |-> Num(5)],
       [slot |-> Num(7), multiplier |-> Num(15)],
       [slot |-> Num(7), multiplier |-> Num(50)],
       [slot |-> Num(7), multiplier |-> Num(200)] >>

\* C15 as stated: every multiplier is in exactly one of the four tiers, the
\* four tier counts sum to n and the four rates sum to 100%.
C15_RatesSumTo100 ==
    Returned("compare_risk_levels") /\ NonEmpty =>
        /\ \A k \in 1..Len(drops) :
             Cardinality({t \in 1..4 : k \in Tiers[t]}) = 1
        /\ SumSeq(TierRates) = 10000

\* C15: every multiplier is in exactly one of the four tiers (< 1.0,
\* [1.0, 2.0), [2.0, 10.0), >= 10.0), each rate is the tier's share of n
\* rounded to 2 decimals, so the tier counts sum to n and the four rates sum
\* to 100% within 0.02; multipliers [0.5, 1.5, 5.0, 20.0] give 25% in each
\* tier.
C15_RatesSumTo100WithinRounding ==
    /\ Returned("compare_risk_levels") /\ NonEmpty =>
        LET n == Len(drops)
            tiers == Tiers
        IN  /\ \A k \in 1..n : Cardinality({t \in 1..4 : k \in tiers[t]}) = 1
            /\ SumSeq([t \in 1..4 |-> Cardinality(tiers[t])]) = n
            /\ \A t \in 1..4 :
                 TierRates[t] = RoundHalfEven(Cardinality(tiers[t]) * 10000, n)
            /\ SumSeq(TierRates) \in 9998..10002
    /\ LET d == compare_risk_levels(<< <<risk_level, ScenarioD>> >>).results[1]
       IN  <<d.loss_rate, d.small_win_rate, d.medium_win_rate, d.big_win_rate>>
             = <<2500, 2500, 2500, 2500>>

\* three outcomes in three tiers: 33.33% each
C15_Witness ==
    /\ Returned("compare_risk_levels")
    /\ Len(drops) = 3
    /\ TierRates = <<3333, 3333, 3333, 0>>

\* the maximum multiplier track_jackpots compares with: the configured
\* maximum of the risk level, that of the high table for a level that is
\* not configured
TrackedMaximum ==
    IF risk_level \in DOMAIN PLINKO_SLOTS
    THEN MaxValue(PLINKO_SLOTS[risk_level])
    ELSE MaxValue(PLINKO_SLOTS["high"])

\* the 0-based positions of the window (most recent first) that hold a
\* jackpot
JackpotPositions == {k - 1 : k \in Reaching(TrackedMaximum)}

\* C16: track_jackpots reports total_jackpots = the number of positions
\* whose multiplier is >= the configured maximum multiplier of the risk
\* level, and drops_since_jackpot = the smallest such position if there is
\* one (0 when the outcome at index 0 is a jackpot), the window length if
\* there is none.
C16_JackpotCountAndRecency ==
    Returned("track_jackpots") =>
        /\ result.out.total_jackpots = Cardinality(JackpotPositions)
        /\ JackpotPositions # {} =>
             /\ result.out.drops_since_jackpot \in JackpotPositions
             /\ \A i \in JackpotPositions : result.out.drops_since_jackpot <= i
        /\ 0 \in JackpotPositions => result.out.drops_since_jackpot = 0
        /\ JackpotPositions = {} => result.out.drops_since_jackpot = Len(drops)

\* two jackpots, the most recent one not at index 0, at a multiplier equal
\* to the maximum
C16_Witness ==
    /\ Returned("track_jackpots")
    /\ risk_level = "medium"
    /\ Cardinality(JackpotPositions) = 2
    /\ 0 \notin JackpotPositions
    /\ \A k \in Reaching(90) : Multiplier(drops[k]).v = 90
    /\ result.out.drops_since_jackpot > 0

\* the first and the last jackpot position of the window, and the number
\* of gaps between consecutive jackpots
FirstJackpot == CHOOSE i \in JackpotPositions : \A j \in JackpotPositions : i <= j
LastJackpot == CHOOSE i \in JackpotPositions : \A j \in JackpotPositions : j <= i
GapCount == Cardinality(JackpotPositions) - 1

\* average_drops_between is present
AverageReported == IsNum(result.out.average_drops_between)

\* C17 as stated: average_drops_between is present iff the window has at
\* least 2 jackpots, and then it is the mean of index[i] - index[i+1] over
\* the consecutive jackpot indices: the sum of these differences is first -
\* last, so the reported value (in tenths) times the number of gaps is 10
\* times that.
C17_AverageIsTheMean ==
    Returned("track_jackpots") =>
        /\ AverageReported <=> Cardinality(JackpotPositions) >= 2
        /\ AverageReported =>
             /\ result.out.average_drops_between.v * GapCount
                  = 10 * (FirstJackpot - LastJackpot)
             /\ result.out.average_drops_between.v <= -10

\* C17: average_drops_between is present iff the window has at least 2
\* jackpots; it is then the mean of index[i] - index[i+1] over the
\* consecutive jackpot indices, (first - last) / (number of gaps), rounded
\* to 1 decimal (the tenth nearest to the mean), a value <= -1; it is None
\* with 0 or 1 jackpots.
C17_AverageIsTheRoundedMean ==
    Returned("track_jackpots") =>
        /\ AverageReported <=> Cardinality(JackpotPositions) >= 2
        /\ ~AverageReported => result.out.average_drops_between = None
        /\ AverageReported =>
             LET tenths == result.out.average_drops_between.v
                 off == 10 * (FirstJackpot - LastJackpot) - tenths * GapCount
             IN  /\ 2 * off <= GapCount
                 /\ -2 * off <= GapCount
                 /\ tenths <= -10

\* jackpots at indices 0, 1, 2 and 4: the mean is -4/3, reported as -1.3
C17_Witness ==
    /\ Returned("track_jackpots")
    /\ JackpotPositions = {0, 1, 2, 4}
    /\ result.out.average_drops_between = Num(-13)

\* the maximum of the multiplier table compare_risk_levels consults, in
\* tenths: 1.4 / 9.0 / 110.0 for low / medium / high, the medium one for a
\* level that is not configured
ConfiguredMaximum ==
    CASE risk_level = "low" -> 14
      [] risk_level = "high" -> 1100
      [] OTHER -> 90

\* C18: in compare_risk_levels, max_multiplier of a risk level's entry is
\* the maximum of that level's configured multiplier table (1.4 / 9.0 /
\* 110.0 for low / medium / high) whatever multipliers were observed, and
\* jackpot_rate is the percentage (4 decimals) of the outcomes whose
\* multiplier is >= that maximum, wherever they landed.
C18_ConfiguredMaximum ==
    Returned("compare_risk_levels") /\ NonEmpty =>
        /\ risk_level \in DOMAIN PLINKO_SLOTS =>
             \A i \in 0..15 : PLINKO_SLOTS[risk_level][i] <= ConfiguredMaximum
        /\ Entry.max_multiplier = ConfiguredMaximum
        /\ Entry.jackpot_rate
             = RoundHalfEven(Cardinality(Reaching(ConfiguredMaximum)) * 1000000,
                             Len(drops))

\* a low-risk window whose outcomes at or above 1.4 all landed off the
\* board, one of them far above 1.4, next to an outcome that is no jackpot
C18_Witness ==
    /\ Returned("compare_risk_levels")
    /\ risk_level = "low"
    /\ Reaching(14) # {}
    /\ Reaching(14) \subseteq OutOfRange
    /\ Reaching(1100) # {}
    /\ Cardinality(Reaching(14)) < Len(drops)
    /\ Entry.max_multiplier = 14
    /\ Entry.jackpot_rate > 0

---------------------------------------------------------------------------
(* PlinkoStatsService: get_drops and get_statistics over the outcome store *)

\* hours_map.get(period, 24)
\* hours_map[period]: no default for a token that is not a key
HoursMapExact(token) ==
    CASE token = "1h" -> 1
      [] token = "6h" -> 6
      [] token = "24h" -> 24
      [] token = "7d" -> 168
      [] token = "30d" -> 720
      [] OTHER -> 0

HoursMap(token) ==
    CASE token = "1h" -> 1
      [] token = "6h" -> 6
      [] token = "24h" -> 24
      [] token = "7d" -> 168
      [] token = "30d" -> 720
      [] OTHER -> 24

\* the risk levels get_statistics fetches, in order
RiskOrder == <<"low", "medium", "high">>

\* the risk_level argument of the get_drops call in flight ("" is None)
StepRisk == IF step \in 1..3 THEN RiskOrder[step] ELSE ""

\* the rows the query of get_drops selects: created_at >= cutoff when hours
\* was given, risk_level = risk when a risk level was given
Selected(rows, cut, risk) ==
    {k \in 1..Len(rows) :
        /\ IsNum(cut) => rows[k].created_at.v >= cut.v
        /\ risk # "" => rows[k].risk_level = risk}

\* ORDER BY created_at DESC: every order of the selected rows that is
\* non-increasing in created_at (rows of equal created_at come in any order)
Ordered(rows, sel) ==
    {w \in [1..Cardinality(sel) -> sel] :
        /\ \A i, j \in 1..Cardinality(sel) : i # j => w[i] # w[j]
        /\ \A i, j \in 1..Cardinality(sel) :
              i < j => rows[w[i]].created_at.v >= rows[w[j]].created_at.v}

\* the results get_drops can return: [dict(row) for row in rows]
get_drops(rows, cut, risk) ==
    {[i \in 1..Len(w) |-> rows[w[i]]] : w \in Ordered(rows, Selected(rows, cut, risk))}

\* the window of the first level that was kept
FirstWindow(windows, risk) == IF windows = <<>> THEN <<>> ELSE windows[1][2]

\* all_drops.get("high", [])
WindowOf(windows, risk) ==
    IF \E k \in 1..Len(windows) : windows[k][1] = risk
    THEN windows[CHOOSE k \in 1..Len(windows) : windows[k][1] = risk][2]
    ELSE <<>>

\* what get_statistics computes and returns once the four fetches are in
BuildReport(token, windows, all_data, at) ==
    LET slot_dists == [k \in 1..Len(windows) |->
                         <<windows[k][1],
                           analyze_slot_distribution(windows[k][2], windows[k][1])>>]
        fairness == [k \in 1..Len(windows) |->
                         <<windows[k][1], analyze_fairness(windows[k][2], windows[k][1])>>]
        risk_comparisons == compare_risk_levels(windows)
        jackpot_tracker == track_jackpots(WindowOf(windows, "high"), "high")
        all_multipliers == Multipliers(all_data)
        \* overall_avg in ten-thousandths; overall_rtp in hundredths is the same number
        overall_avg == IF all_multipliers # <<>>
                       THEN RoundHalfEven(SumSeq(all_multipliers) * 1000,
                                          Len(all_multipliers))
                       ELSE 10000
    IN  IF \/ \E k \in 1..Len(windows) : slot_dists[k][2].raised \/ fairness[k][2].raised
           \/ risk_comparisons.raised
           \/ jackpot_tracker.raised
           \/ MultiplierTypeError(all_data)
        THEN Raise("TypeError")
        ELSE [raised |-> FALSE,
              period |-> token,
              generated_at |-> at,
              slot_distributions |-> slot_dists,
              risk_comparisons |-> risk_comparisons.results,
              fairness_analysis |-> fairness,
              jackpot_tracker |-> jackpot_tracker,
              total_drops |-> Len(all_data),
              overall_avg_multiplier |-> overall_avg,
              overall_rtp |-> overall_avg]

\* period tokens of the requests; "2w" is not in hours_map
Periods == {"1h", "6h", "24h", "7d", "30d", "2w"}

\* the rows the store can gain
RowKinds ==
    { [risk_level |-> r, slot |-> Num(3), multiplier |-> Num(2)] : r \in {"low", "medium", "high"} }
    \cup
    { [risk_level |-> "high", landing_position |-> Num(12), multiplier |-> Num(1100)],
      [risk_level |-> "low", slot |-> Num(3), multiplier |-> Num(1100)] }

ServiceInit ==
    /\ drops = <<>>
    /\ risk_level = "high"
    /\ result = NoResult
    /\ ServiceIdle
    /\ Quiescent

\* the outcome store gains a row, stamped with the current time
Insert ==
    /\ Len(store) < MaxRows
    /\ \E kind \in RowKinds :
          store' = Append(store, kind @@ [drop_id |-> Num(Len(store) + 1),
                                          created_at |-> Num(now)])
    /\ UNCHANGED <<calcVars, calls, colVars, now, pc, step, period, hours, cutoff, all_drops, queries, report>>

\* time passes
Tick ==
    /\ now < MaxTime
    /\ now' = now + 1
    /\ UNCHANGED <<calcVars, calls, colVars, store, pc, step, period, hours, cutoff, all_drops, queries, report>>

\* get_statistics(period) is called: the lookback is resolved
GetStatistics ==
    /\ pc = "idle"
    /\ \E token \in Periods :
          /\ period' = token
          /\ hours' = HoursMap(token)
    /\ all_drops' = <<>>
    /\ queries' = <<>>
    /\ step' = 1
    /\ pc' = "get_drops"
    /\ UNCHANGED <<calcVars, calls, colVars, store, now, cutoff, report>>

\* get_drops up to its await: the cutoff of the query is computed
GetDropsBegin ==
    /\ pc = "get_drops"
    /\ cutoff' = IF hours # 0 THEN Num(now - hours) ELSE None
    /\ pc' = "fetch"
    /\ UNCHANGED <<calcVars, calls, colVars, store, now, step, period, hours, all_drops, queries, report>>

\* the fetch of one risk level's window returns and every window is kept
FetchLevelKeepingEmpty ==
    /\ pc = "fetch"
    /\ step \in 1..3
    /\ \E window \in get_drops(store, cutoff, StepRisk) :
          /\ all_drops' = Append(all_drops, <<StepRisk, window>>)
          /\ queries' = Append(queries, [hours |-> hours, risk_level |-> StepRisk,
                                         rows |-> Len(window)])
    /\ step' = step + 1
    /\ pc' = "get_drops"
    /\ UNCHANGED <<calcVars, calls, colVars, store, now, period, hours, cutoff, report>>

\* the fetch of one risk level's window returns; a non-empty window is kept
FetchLevel ==
    /\ pc = "fetch"
    /\ step \in 1..3
    /\ \E window \in get_drops(store, cutoff, StepRisk) :
          /\ all_drops' = IF window # <<>>
                          THEN Append(all_drops, <<StepRisk, window>>)
                          ELSE all_drops
          /\ queries' = Append(queries, [hours |-> hours, risk_level |-> StepRisk,
                                         rows |-> Len(window)])
    /\ step' = step + 1
    /\ pc' = "get_drops"
    /\ UNCHANGED <<calcVars, calls, colVars, store, now, period, hours, cutoff, report>>

\* the fetch of the combined window returns: the report is built and returned
FetchAll ==
    /\ pc = "fetch"
    /\ step = 4
    /\ \E all_data \in get_drops(store, cutoff, StepRisk) :
          /\ report' = BuildReport(period, all_drops, all_data, now)
          /\ queries' = Append(queries, [hours |-> hours, risk_level |-> StepRisk,
                                         rows |-> Len(all_data)])
    /\ pc' = IF report'.raised THEN "raised" ELSE "done"
    /\ UNCHANGED <<calcVars, calls, colVars, store, now, step, period, hours, cutoff, all_drops>>

\* acquiring the connection or the fetch raises: get_drops has no handler
\* and neither has get_statistics, so the request ends with the exception
FetchFails ==
    /\ pc = "fetch"
    /\ report' = Raise("DatabaseError")
    /\ pc' = "raised"
    /\ UNCHANGED <<calcVars, calls, colVars, store, now, step, period, hours, cutoff, all_drops, queries>>

\* the request is over; the service takes the next one
NextRequest ==
    /\ pc \in {"done", "raised"}
    /\ pc' = "idle"
    /\ step' = 0
    /\ period' = ""
    /\ hours' = 0
    /\ cutoff' = None
    /\ all_drops' = <<>>
    /\ queries' = <<>>
    /\ report' = NoResult
    /\ UNCHANGED <<calcVars, calls, colVars, store, now>>

ServiceNext ==
    \/ Insert
    \/ Tick
    \/ GetStatistics
    \/ GetDropsBegin
    \/ FetchLevel
    \/ FetchAll
    \/ FetchFails
    \/ NextRequest

SpecService == ServiceInit /\ [][ServiceNext]_vars

---------------------------------------------------------------------------
(* PlinkoCollector.save_drop *)

\* what a call returned
Returns(value) == [raised |-> FALSE, value |-> value]

\* str.lower() on the risk levels the callers pass
Lower(text) ==
    CASE text = "HIGH" -> "high"
      [] text = "Medium" -> "medium"
      [] OTHER -> text

\* risk_level.lower(), kept whatever it is
LowerCasedRisk(text) == Lower(text)

\* risk_level.lower(), replaced by 'medium' when it is not low/medium/high
NormalizedRisk(text) ==
    IF Lower(text) \in {"low", "medium", "high"} THEN Lower(text) ELSE "medium"

\* the three parameter tests of save_drop
InvalidDrop(rows, landing_position, multiplier) ==
    multiplier <= 0 \/ rows <= 0 \/ landing_position < 0

\* a row of plinko_rounds with this drop_id exists
Exists(table, drop_id) == \E k \in 1..Len(table) : table[k].drop_id = drop_id

\* save_drop on the table and the counter: the table and the counter it
\* leaves and what it returns or raises.  db_ok is FALSE when connect,
\* execute or commit raises aiosqlite.Error.  INSERT OR IGNORE skips a row
\* whose drop_id exists without raising.
save_drop(table, collected, at, drop_id, risk, rows, landing_position, multiplier, db_ok) ==
    IF InvalidDrop(rows, landing_position, multiplier)
    THEN [table |-> table, drops_collected |-> collected, out |-> Raise("ValueError")]
    ELSE IF ~db_ok
    THEN [table |-> table, drops_collected |-> collected, out |-> Returns(FALSE)]
    ELSE [table |-> IF Exists(table, drop_id) THEN table
                    ELSE Append(table, [drop_id |-> drop_id,
                                        risk_level |-> NormalizedRisk(risk),
                                        rows |-> Num(rows),
                                        landing_position |-> Num(landing_position),
                                        multiplier |-> Num(multiplier),
                                        created_at |-> Num(at)]),
          drops_collected |-> collected + 1,
          out |-> Returns(TRUE)]

\* the record of a save_drop call: its arguments, the state it found and
\* what it returned or raised
SaveRecord(drop_id, risk, rows, landing_position, multiplier, out) ==
    [op |-> "save_drop", drop_id |-> drop_id, risk_level |-> risk, rows |-> rows,
     landing_position |-> landing_position, multiplier |-> multiplier,
     existed |-> Exists(store, drop_id), stored_before |-> Len(store),
     collected_before |-> drops_collected, out |-> out]

\* the arguments save_drop is called with; multipliers in tenths
DropIds == {"a", "b"}
RawRiskLevels == {"low", "HIGH", "Medium", "extreme"}
RowCounts == {0, 12}
Positions == {-1, 3}
RawMultipliers == {0, 20}

SaveInit ==
    /\ drops = <<>>
    /\ risk_level = "high"
    /\ result = NoResult
    /\ ServiceIdle
    /\ Quiescent

\* a call of save_drop
SaveDrop ==
    /\ drops_collected < MaxSaves
    /\ \E drop_id \in DropIds, risk \in RawRiskLevels, rows \in RowCounts,
          landing_position \in Positions, multiplier \in RawMultipliers,
          db_ok \in BOOLEAN :
          LET call == save_drop(store, drops_collected, now, drop_id, risk, rows,
                                landing_position, multiplier, db_ok)
          IN  /\ store' = call.table
              /\ drops_collected' = call.drops_collected
              /\ saved' = SaveRecord(drop_id, risk, rows, landing_position,
                                     multiplier, call.out)
    /\ UNCHANGED <<calcVars, calls, now, pc, step, period, hours, cutoff, all_drops,
                   queries, report, max_retries, retry_delay, running, cpc,
                   retry_count, wait_time, generated, outcome, failures, stopped>>

\* time passes between two calls
SaveTick ==
    /\ now < MaxTime
    /\ now' = now + 1
    /\ UNCHANGED <<calcVars, calls, colVars, store, pc, step, period, hours, cutoff,
                   all_drops, queries, report>>

SaveNext ==
    \/ SaveDrop
    \/ SaveTick

SpecSave == SaveInit /\ [][SaveNext]_vars

---------------------------------------------------------------------------
(* PlinkoCollector.run, generate_test_data, collect_with_playwright, stop *)

\* the variables of the statistics request, which the collector leaves alone
reqVars == <<now, pc, step, period, hours, cutoff, all_drops, queries, report>>

\* run() is inside collect_with_playwright
Live == {"loop", "attempt", "monitoring", "backoff"}

\* run() has returned or raised
Ended == {"returned", "raised"}

CollectInit ==
    /\ drops = <<>>
    /\ risk_level = "high"
    /\ result = NoResult
    /\ ServiceIdle
    /\ calls = <<>>
    /\ max_retries \in 1..MaxRetries
    /\ retry_delay \in {1, 2}
    /\ CollectorNew

\* run(demo_url, test_mode) up to its first await inside the try block:
\* init_db, running = True, then the branch on the arguments.  With neither
\* argument ValueError is raised and the finally clause resets running.
Run ==
    /\ cpc = "idle"
    /\ \E mode \in {"test", "demo", "none"}, db_ok \in BOOLEAN :
          IF ~db_ok
          THEN /\ cpc' = "raised"
               /\ outcome' = "DatabaseError"
               /\ UNCHANGED <<running, retry_count, generated>>
          ELSE CASE mode = "test" ->
                      /\ running' = TRUE
                      /\ cpc' = "generate"
                      /\ generated' = 0
                      /\ UNCHANGED <<outcome, retry_count>>
                 [] mode = "demo" ->
                      /\ running' = TRUE
                      /\ cpc' = "loop"
                      /\ retry_count' = 0
                      /\ UNCHANGED <<outcome, generated>>
                 [] OTHER ->
                      /\ running' = FALSE
                      /\ cpc' = "raised"
                      /\ outcome' = "ValueError"
                      /\ UNCHANGED <<retry_count, generated>>
    /\ UNCHANGED <<calcVars, calls, store, reqVars, max_retries, retry_delay,
                   drops_collected, saved, wait_time, failures, stopped>>

\* one iteration of generate_test_data: a drop with a fresh id is saved
GenerateDrop ==
    /\ cpc = "generate"
    /\ generated < MaxTest
    /\ \E risk \in {"low", "high"}, db_ok \in BOOLEAN :
          LET drop_id == IF generated = 0 THEN "test_0" ELSE "test_n"
              call == save_drop(store, drops_collected, now, drop_id, risk, 8, 4, 2, db_ok)
          IN  /\ store' = call.table
              /\ drops_collected' = call.drops_collected
              /\ saved' = SaveRecord(drop_id, risk, 8, 4, 2, call.out)
    /\ generated' = generated + 1
    /\ UNCHANGED <<calcVars, calls, reqVars, max_retries, retry_delay, running, cpc,
                   retry_count, wait_time, outcome, failures, stopped>>

\* generate_test_data returns, and run() with it: finally resets running
GenerateDone ==
    /\ cpc = "generate"
    /\ generated = MaxTest
    /\ running' = FALSE
    /\ cpc' = "returned"
    /\ UNCHANGED <<calcVars, calls, store, reqVars, max_retries, retry_delay,
                   drops_collected, saved, retry_count, wait_time, generated, outcome,
                   failures, stopped>>

\* while self.running and retry_count < self.max_retries: the next attempt
\* starts, or the loop and run() with it return (finally resets running)
LoopTest ==
    /\ cpc = "loop"
    /\ IF running /\ retry_count < max_retries
       THEN cpc' = "attempt" /\ UNCHANGED running
       ELSE cpc' = "returned" /\ running' = FALSE
    /\ UNCHANGED <<calcVars, calls, store, reqVars, max_retries, retry_delay,
                   drops_collected, saved, retry_count, wait_time, generated, outcome,
                   failures, stopped>>

\* a page load that leaves retry_count as it is
PageLoadedKeepingCount ==
    /\ cpc = "attempt"
    /\ failures' = 0
    /\ cpc' = "monitoring"
    /\ UNCHANGED <<calcVars, calls, store, reqVars, max_retries, retry_delay, running,
                   drops_collected, saved, retry_count, wait_time, generated, outcome,
                   stopped>>

\* the browser was launched and page.goto returned: retry_count = 0
PageLoaded ==
    /\ cpc = "attempt"
    /\ retry_count' = 0
    /\ failures' = 0
    /\ cpc' = "monitoring"
    /\ UNCHANGED <<calcVars, calls, store, reqVars, max_retries, retry_delay, running,
                   drops_collected, saved, wait_time, generated, outcome, stopped>>

\* the handler of the outer try: the failure is counted and the wait
\* computed; below max_retries the wait begins, at max_retries
\* ConnectionError leaves collect_with_playwright and run() (finally resets
\* running)
Failed ==
    /\ retry_count' = retry_count + 1
    /\ failures' = failures + 1
    /\ wait_time' = retry_delay * Pow2(retry_count)
    /\ IF retry_count + 1 < max_retries
       THEN /\ cpc' = "backoff"
            /\ UNCHANGED <<running, outcome>>
       ELSE /\ cpc' = "raised"
            /\ outcome' = "ConnectionError"
            /\ running' = FALSE
    /\ UNCHANGED <<calcVars, calls, store, reqVars, max_retries, retry_delay,
                   drops_collected, saved, generated, stopped>>

\* launching the browser or page.goto raises (its timeout is 60 s)
AttemptFails ==
    /\ cpc = "attempt"
    /\ Failed

\* a monitoring loop that does not look at running
MonitoringGoesOn ==
    /\ cpc = "monitoring"
    /\ UNCHANGED vars

\* while self.running: await asyncio.sleep(1) finds running false; the
\* browser is closed and the outer loop tests its condition again
MonitoringEnds ==
    /\ cpc = "monitoring"
    /\ ~running
    /\ cpc' = "loop"
    /\ UNCHANGED <<calcVars, calls, store, reqVars, max_retries, retry_delay, running,
                   drops_collected, saved, retry_count, wait_time, generated, outcome,
                   failures, stopped>>

\* an exception while monitoring or in browser.close()
MonitoringFails ==
    /\ cpc = "monitoring"
    /\ Failed

\* await asyncio.sleep(wait_time) is over
BackoffOver ==
    /\ cpc = "backoff"
    /\ cpc' = "loop"
    /\ UNCHANGED <<calcVars, calls, store, reqVars, max_retries, retry_delay, running,
                   drops_collected, saved, retry_count, wait_time, generated, outcome,
                   failures, stopped>>

\* stop(): running = False
Stop ==
    /\ running' = FALSE
    /\ stopped' = (stopped \/ cpc \in Live)
    /\ UNCHANGED <<calcVars, calls, store, reqVars, max_retries, retry_delay,
                   drops_collected, saved, cpc, retry_count, wait_time, generated,
                   outcome, failures>>

CollectNext ==
    \/ Run
    \/ GenerateDrop
    \/ GenerateDone
    \/ LoopTest
    \/ PageLoaded
    \/ AttemptFails
    \/ MonitoringEnds
    \/ MonitoringFails
    \/ BackoffOver
    \/ Stop

SpecCollect == CollectInit /\ [][CollectNext]_vars

\* the steps of run() are taken when they can be: the event loop resumes a
\* coroutine whose sleep is over, and an attempt ends, page.goto having a
\* timeout
SpecCollectLive ==
    /\ CollectInit
    /\ [][CollectNext]_vars
    /\ WF_vars(GenerateDrop)
    /\ WF_vars(GenerateDone)
    /\ WF_vars(LoopTest)
    /\ WF_vars(PageLoaded \/ AttemptFails)
    /\ WF_vars(MonitoringEnds)
    /\ WF_vars(BackoffOver)

---------------------------------------------------------------------------
(* Properties of the jackpot tracker on long windows *)

\* C2 as stated: current_drought is true exactly when drops_since_jackpot
\* exceeds 1.5 * (100 / 0.3) = 500; 500 outcomes with no jackpot give
\* drops_since_jackpot = 500 and no drought, 501 give a drought.
C2_DroughtAbove500 ==
    Returned("track_jackpots") =>
        /\ result.out.current_drought <=> result.out.drops_since_jackpot > 500
        /\ risk_level = "high" /\ Reaching(1100) = {} /\ Len(drops) = 500 =>
              result.out.drops_since_jackpot = 500 /\ ~result.out.current_drought
        /\ risk_level = "high" /\ Reaching(1100) = {} /\ Len(drops) = 501 =>
              result.out.current_drought

\* C2 as amended: current_drought is true exactly when drops_since_jackpot
\* exceeds 1.5 * int(100 / 0.3) = 1.5 * 333 = 499.5; 500 outcomes with no
\* jackpot give drops_since_jackpot = 500 and a drought, 499 give none.
C2_DroughtAboveTruncated ==
    Returned("track_jackpots") =>
        /\ result.out.current_drought <=> 2 * result.out.drops_since_jackpot > 999
        /\ risk_level = "high" /\ Reaching(1100) = {} /\ Len(drops) = 500 =>
              result.out.drops_since_jackpot = 500 /\ result.out.current_drought
        /\ risk_level = "high" /\ Reaching(1100) = {} /\ Len(drops) = 499 =>
              result.out.drops_since_jackpot = 499 /\ ~result.out.current_drought

\* the tracker has reported on a high-risk window of 500 outcomes, no jackpot
C2_Witness ==
    /\ Returned("track_jackpots")
    /\ risk_level = "high"
    /\ Len(drops) = 500
    /\ Reaching(1100) = {}
    /\ result.out.drops_since_jackpot = 500
    /\ result.out.current_drought

---------------------------------------------------------------------------
(* Properties of the statistics service *)

\* the request ended because the fetch of one risk level's window raised,
\* after the fetch of another level had returned a non-empty window
LevelFetchFailed ==
    /\ pc = "raised"
    /\ report.exc = "DatabaseError"
    /\ step \in 2..3
    /\ all_drops # <<>>

\* the risk levels of a section of the report
Levels(section) == {section[k][1] : k \in 1..Len(section)}

\* C1: when the fetch of one risk level's window raises, get_statistics still
\* returns a report, with the distribution, fairness and comparison sections
\* of the risk levels whose fetch succeeded with a non-empty window.
C1_PartialResultsTolerated ==
    /\ ~LevelFetchFailed
    /\ pc = "done" =>
         /\ ~report.raised
         /\ \A k \in 1..Len(all_drops) :
               /\ all_drops[k][1] \in Levels(report.slot_distributions)
               /\ all_drops[k][1] \in Levels(report.fairness_analysis)
               /\ \E c \in 1..Len(report.risk_comparisons) :
                     report.risk_comparisons[c].risk_level = all_drops[k][1]

\* the risk levels whose fetch returned a non-empty window
FetchedNonEmpty ==
    {queries[k].risk_level : k \in {j \in 1..Len(queries) :
                                      queries[j].risk_level # "" /\ queries[j].rows > 0}}

\* the risk levels whose fetch returned no row
FetchedEmpty ==
    {queries[k].risk_level : k \in {j \in 1..Len(queries) :
                                      queries[j].risk_level # "" /\ queries[j].rows = 0}}

\* C19: in every report get_statistics returns, slot_distributions,
\* fairness_analysis and risk_comparisons each hold one entry for exactly the
\* risk levels whose fetched window was non-empty, all of them among low,
\* medium and high, none with total_drops = 0; and the only exception a
\* request ends with is that of a failed fetch, never one caused by a level
\* without outcomes.
C19_SectionsCoverNonEmptyLevels ==
    /\ pc = "done" =>
         /\ ~report.raised
         /\ Levels(report.slot_distributions) = FetchedNonEmpty
         /\ Levels(report.fairness_analysis) = FetchedNonEmpty
         /\ {report.risk_comparisons[c].risk_level :
                c \in 1..Len(report.risk_comparisons)} = FetchedNonEmpty
         /\ Len(report.slot_distributions) = Cardinality(FetchedNonEmpty)
         /\ Len(report.fairness_analysis) = Cardinality(FetchedNonEmpty)
         /\ Len(report.risk_comparisons) = Cardinality(FetchedNonEmpty)
         /\ FetchedNonEmpty \subseteq {"low", "medium", "high"}
         /\ \A k \in 1..Len(report.slot_distributions) :
               /\ report.slot_distributions[k][2].total_drops > 0
               /\ report.slot_distributions[k][2].risk_level
                    = report.slot_distributions[k][1]
               /\ report.fairness_analysis[k][2].risk_level
                    = report.fairness_analysis[k][1]
         /\ \A c \in 1..Len(report.risk_comparisons) :
               report.risk_comparisons[c].total_drops > 0
    /\ pc = "raised" => report = Raise("DatabaseError")

\* a report was returned for a request in which one level had outcomes and
\* another had none
C19_Witness ==
    /\ pc = "done"
    /\ ~report.raised
    /\ FetchedNonEmpty # {}
    /\ FetchedEmpty # {}
    /\ Len(queries) = 4

\* the lookback, in hours, the period token of the request stands for
Lookback ==
    IF period = "1h" THEN 1
    ELSE IF period = "6h" THEN 6
    ELSE IF period = "7d" THEN 168
    ELSE IF period = "30d" THEN 720
    ELSE 24

\* C20: get_statistics resolves 1h, 6h, 24h, 7d, 30d to 1, 6, 24, 168, 720
\* hours and any other token to 24 hours, a request with such a token ending
\* with a report like any other; the three per-level fetches (low, medium,
\* high, in this order) and the combined fetch are all made with that
\* lookback, each cutoff lying that many hours before the time of its fetch.
C20_PeriodLookback ==
    /\ pc # "idle" =>
         /\ hours = Lookback
         /\ Len(queries) <= 4
         /\ \A k \in 1..Len(queries) :
               /\ queries[k].hours = Lookback
               /\ queries[k].risk_level = (IF k <= 3 THEN RiskOrder[k] ELSE "")
    /\ pc = "fetch" =>
         /\ IsNum(cutoff)
         /\ cutoff.v + Lookback <= now
    /\ pc = "done" => Len(queries) = 4 /\ report.period = period
    /\ pc = "raised" /\ period \notin {"1h", "6h", "24h", "7d", "30d"} =>
         report.exc = "DatabaseError"

\* a request with a token that is not in hours_map returned its report after
\* four fetches over 24 hours
C20_Witness ==
    /\ pc = "done"
    /\ period = "2w"
    /\ ~report.raised
    /\ Len(queries) = 4
    /\ \A k \in 1..4 : queries[k].hours = 24
    /\ report.total_drops > 0

\* the kept windows of the high risk level (at most one)
HighWindows == {all_drops[k][2] : k \in {j \in 1..Len(all_drops) : all_drops[j][1] = "high"}}

\* C21: the jackpot state of a report is that of the high-risk window alone:
\* with no high window kept it is the state of an empty window (no jackpot,
\* 0 drops since, no time, no average, no drought) whatever the low and
\* medium windows hold, and with a high window it counts the outcomes of
\* that window at or above 110.0 and no other.
C21_JackpotsOfHighWindowOnly ==
    pc = "done" =>
        /\ Cardinality(HighWindows) <= 1
        /\ ("high" \in FetchedNonEmpty) = (HighWindows # {})
        /\ HighWindows = {} =>
             /\ report.jackpot_tracker.total_jackpots = 0
             /\ report.jackpot_tracker.drops_since_jackpot = 0
             /\ report.jackpot_tracker.last_jackpot_time = None
             /\ report.jackpot_tracker.average_drops_between = None
             /\ report.jackpot_tracker.current_drought = FALSE
        /\ \A w \in HighWindows :
             LET hits == {i \in 1..Len(w) : w[i].multiplier.v >= 1100}
             IN  /\ report.jackpot_tracker.total_jackpots = Cardinality(hits)
                 /\ report.jackpot_tracker.drops_since_jackpot
                      = (IF hits = {} THEN Len(w)
                         ELSE (CHOOSE i \in hits : \A j \in hits : i <= j) - 1)

\* a report built from a low window that holds an outcome at 110.0 while no
\* high window was kept: the jackpot state is the empty one
C21_Witness ==
    /\ pc = "done"
    /\ HighWindows = {}
    /\ \E k \in 1..Len(all_drops) :
          /\ all_drops[k][1] = "low"
          /\ \E i \in 1..Len(all_drops[k][2]) : all_drops[k][2][i].multiplier.v >= 1100
    /\ report.jackpot_tracker.total_jackpots = 0
    /\ report.jackpot_tracker.drops_since_jackpot = 0

MaximumSlots(risk) ==
    {i \in 0..15 : \A j \in 0..15 : PLINKO_SLOTS[risk][j] <= PLINKO_SLOTS[risk][i]}

\* the reported jackpot_rate (4 decimals) is the percentage of the outcomes
\* that landed in the maximum-multiplier slots of the level's table
JackpotRateOfMaximumSlots ==
    /\ \A risk \in {"low", "medium", "high"} : MaximumSlots(risk) = {7, 8}
    /\ Returned("analyze_slot_distribution") /\ NonEmpty =>
         result.out.jackpot_rate
           = RoundHalfEven(Cardinality(Landed(7) \cup Landed(8)) * 1000000, Len(drops))

ReportedDeviationSum ==
    SumSeq([i \in 1..16 |-> result.out.slot_comparisons[i].deviation])

\* some slot is reported underperforming, with a deviation below -1.0
SomeSlotUnderperforms ==
    /\ result.out.underperforming_slots # <<>>
    /\ \E i \in 1..16 : result.out.slot_comparisons[i].deviation < -100
    /\ \A k \in 1..Len(result.out.underperforming_slots) :
          result.out.slot_comparisons[result.out.underperforming_slots[k] + 1].deviation
            <= -100

\* C30 as stated: for every non-empty window analyze_fairness reports a
\* non-empty underperforming_slots list, and the reported per-slot deviations
\* sum to at most -79 points.
C30_DeviationsSumAtMostMinus79 ==
    Returned("analyze_fairness") /\ NonEmpty =>
        /\ SomeSlotUnderperforms
        /\ ReportedDeviationSum <= -7900

\* C30: for every non-empty window analyze_fairness reports a non-empty
\* underperforming_slots list; the theoretical percentages sum to 179, so the
\* deviations before rounding sum to at most -79 points, and the 16 reported
\* ones, each rounded to 2 decimals, to at most -78.92.
C30_AlwaysUnderperforming ==
    Returned("analyze_fairness") /\ NonEmpty =>
        /\ SomeSlotUnderperforms
        /\ SumSeq([i \in 1..16 |-> result.out.slot_comparisons[i].theoretical_pct]) = 17900
        /\ SumSeq([i \in 1..16 |-> result.out.slot_comparisons[i].observed]) <= Len(drops)
        /\ ReportedDeviationSum <= -7900 + 8

\* seven outcomes in seven slots: the reported deviations sum to -78.97
C30_Witness ==
    /\ Returned("analyze_fairness")
    /\ drops = SevenSlots
    /\ result.out.slot_comparisons[4].deviation = 349
    /\ result.out.slot_comparisons[5].deviation = -191
    /\ result.out.slot_comparisons[6].deviation = -511
    /\ ReportedDeviationSum = -7897
    /\ Len(result.out.underperforming_slots) = 13

\* C28: in every report get_statistics returns, total_drops (the length of
\* the combined window) is the sum of total_drops over the per-level
\* distribution reports, whatever the store gained between the four fetches.
C28_TotalIsSumOfLevels ==
    pc = "done" =>
        report.total_drops
          = SumSeq([k \in 1..Len(report.slot_distributions) |->
                      report.slot_distributions[k][2].total_drops])

\* the rows of a window that save_drop stored with landing position p
StoredAt(window, p) ==
    {i \in 1..Len(window) :
        /\ "landing_position" \in DOMAIN window[i]
        /\ window[i].landing_position = Num(p)}

\* C29: in every report, an outcome that was stored with landing position p
\* in 0..15 and fetched in the window of its risk level is counted under
\* slot p in that level's distribution and fairness reports.
C29_CountedUnderLandingPosition ==
    pc = "done" =>
        \A k \in 1..Len(all_drops) : \A p \in 0..15 :
            LET stored == Cardinality(StoredAt(all_drops[k][2], p))
            IN  stored > 0 =>
                  /\ report.slot_distributions[k][2].slots[p + 1].hit_count >= stored
                  /\ report.fairness_analysis[k][2].slot_comparisons[p + 1].observed
                       >= stored

\* the drop_ids of the rows of plinko_rounds
StoredIds == {store[k].drop_id : k \in 1..Len(store)}

\* C24: drops_collected is the number of distinct drop_ids stored, save_drop
\* returns True only for a drop_id that was not stored before, and a call
\* with a drop_id that exists returns False and leaves the table and
\* drops_collected as they were.
C24_CollectedCountsStoredRows ==
    /\ drops_collected = Cardinality(StoredIds)
    /\ saved.op = "save_drop" /\ saved.out = Returns(TRUE) => ~saved.existed
    /\ saved.op = "save_drop" /\ saved.existed /\ ~saved.out.raised =>
         /\ saved.out = Returns(FALSE)
         /\ Len(store) = saved.stored_before
         /\ drops_collected = saved.collected_before

\* the risk level save_drop is to store for the one it was given
StoredRiskFor(text) ==
    CASE text \in {"low", "Low", "LOW"} -> "low"
      [] text \in {"high", "High", "HIGH"} -> "high"
      [] OTHER -> "medium"

\* C26: save_drop raises ValueError exactly when multiplier <= 0, rows <= 0
\* or landing_position < 0, and then the table and drops_collected are as
\* before; a row it stores carries the lower-cased risk level when that is
\* low, medium or high and "medium" otherwise, so every stored row has a
\* risk level among the three, rows > 0, landing_position >= 0 and
\* multiplier > 0.
C26_RejectsInvalidAndNormalizes ==
    /\ saved.op = "save_drop" =>
         /\ (saved.out = Raise("ValueError"))
              = (saved.multiplier <= 0 \/ saved.rows <= 0 \/ saved.landing_position < 0)
         /\ saved.out.raised =>
              /\ Len(store) = saved.stored_before
              /\ drops_collected = saved.collected_before
         /\ Len(store) > saved.stored_before =>
              /\ Len(store) = saved.stored_before + 1
              /\ store[Len(store)].drop_id = saved.drop_id
              /\ store[Len(store)].risk_level = StoredRiskFor(saved.risk_level)
              /\ store[Len(store)].rows = Num(saved.rows)
              /\ store[Len(store)].landing_position = Num(saved.landing_position)
              /\ store[Len(store)].multiplier = Num(saved.multiplier)
    /\ \A k \in 1..Len(store) :
          /\ store[k].risk_level \in {"low", "medium", "high"}
          /\ store[k].rows.v > 0
          /\ store[k].landing_position.v >= 0
          /\ store[k].multiplier.v > 0

\* a drop with the risk level "extreme" was stored as medium, next to a row
\* stored before, and drops_collected counts both
C26_Witness ==
    /\ saved.op = "save_drop"
    /\ saved.risk_level = "extreme"
    /\ saved.out = Returns(TRUE)
    /\ Len(store) = 2
    /\ saved.stored_before = 1
    /\ store[2].risk_level = "medium"
    /\ drops_collected = 2

\* C25: ConnectionError leaves collect_with_playwright exactly when
\* max_retries attempts have failed since the last page load; retry_count is
\* the number of these failures (a page load resets it), the wait that
\* follows the k-th of them (k < max_retries) is retry_delay * 2^(k-1), and
\* no attempt is started with max_retries failures behind it.
C25_RetriesWithBackoff ==
    /\ failures <= max_retries
    /\ (outcome = "ConnectionError") = (failures = max_retries)
    /\ outcome = "ConnectionError" => cpc = "raised"
    /\ cpc \in Live => retry_count = failures /\ failures < max_retries
    /\ cpc = "monitoring" => failures = 0
    /\ cpc = "backoff" =>
         /\ failures \in 1..(max_retries - 1)
         /\ wait_time = retry_delay * Pow2(failures - 1)

\* three attempts in a row failed, the last one after waits of 2 and 4
\* seconds: ConnectionError
C25_Witness ==
    /\ cpc = "raised"
    /\ outcome = "ConnectionError"
    /\ max_retries = 3
    /\ retry_delay = 2
    /\ failures = 3
    /\ retry_count = 3
    /\ ~running

\* C27: once stop() has been called during a live collection, no further
\* connection attempt is started and run() eventually returns or raises; and
\* whenever run() has returned or raised (normal return, ValueError,
\* DatabaseError or ConnectionError), running is False.
C27_StopEndsCollection ==
    /\ [](cpc \in Ended => ~running)
    /\ [][stopped /\ cpc = "loop" => cpc' # "attempt"]_vars
    /\ (stopped ~> cpc \in Ended)

\* stop() was called while the page was being monitored, and run() returned
C27_Witness ==
    /\ stopped
    /\ cpc = "returned"
    /\ outcome = ""
    /\ failures = 0
    /\ ~running

=============================================================================
